---- MODULE Spec2Model ----
(***************************************************************************)
(* Case-management consistency engine (janjanpower/RENDER).                *)
(*                                                                         *)
(*   SpecRecord : one CaseData record under its stage operations           *)
(*                (src/models/case_model.py).                              *)
(*   Spec       : CaseController add / delete over the metadata store and  *)
(*                the folder tree (src/controllers/case_controller.py).    *)
(*   SpecRename : CaseController.update_case_id over a loaded store.       *)
(*   SpecProgress : the progress-stage sagas of CaseController over one    *)
(*                stored case.                                             *)
(*   SpecCall   : one call of any CaseController operation over any store, *)
(*                folders and folder manager.                              *)
(*   SpecDatabase : DatabaseManager.get_all_cases (src/api/database.py).   *)
(*   SpecInsert : DatabaseInitializer.insert_cases (src/init_database.py). *)
(***************************************************************************)
EXTENDS Integers, Sequences, FiniteSets, TLC

VARIABLES
    rec,        \* SpecRecord: the CaseData record
    removed,    \* SpecRecord: what the last call returned if it was
                \* remove_progress_stage ("True" / "False"), else "none"
    cases,      \* data_manager.cases, shared with validator and progress_manager
    disk,       \* the case folders that exist under the data folder
    excel,      \* the case ids the spreadsheet export's rows refer to
    progress_files, \* the case ids the progress artifacts are named after
    fm,         \* the folder manager the constructor selected
    saved,      \* SpecProgress: the record as the last successful save wrote it
    call,       \* the last call: [op, arg, ret, msg, trace]
    db          \* SpecDatabase, SpecInsert: the environment, the DatabaseManager
                \* and the rows of the PostgreSQL table `cases`

recvars == <<rec, removed>>
ctlvars == <<cases, disk, excel, progress_files, fm, saved, call, db>>
vars == <<rec, removed, cases, disk, excel, progress_files, fm, saved, call, db>>

\* db in the specifications that have no database
NoDatabase == [db_mode |-> "none"]

(***************************************************************************)
(* Bounds                                                                  *)
(***************************************************************************)
\* updated_date is a logical clock; calls stop once it reaches this value
MaxClock == 4

(***************************************************************************)
(* Strings.  A date string is the sequence of its characters (digits), so  *)
(* that Python's str comparison is the lexicographic order LexLess.        *)
(* "2" and "10" are two non-ISO dates: "10" < "2" as strings.              *)
(***************************************************************************)
NoDate == <<>>                      \* None
Dates == {<<2>>, <<1, 0>>}
DefaultProgress == "pending"        \* progress: str = "待處理"
StageNames == {DefaultProgress, "filed", "hearing"}
NoText == ""                        \* None or "" (falsy note / time)
Notes == {"note"}
Times == {"t0900"}

RECURSIVE LexLess(_, _)
LexLess(a, b) ==
    IF a = <<>> THEN b # <<>>
    ELSE IF b = <<>> THEN FALSE
    ELSE IF a[1] # b[1] THEN a[1] < b[1]
    ELSE LexLess(Tail(a), Tail(b))

(***************************************************************************)
(* dict with insertion order: a sequence of [k, v] with distinct k.        *)
(***************************************************************************)
Keys(d) == {d[i].k : i \in DOMAIN d}
Get(d, key) == d[CHOOSE i \in DOMAIN d : d[i].k = key].v
Put(d, key, val) ==
    IF key \in Keys(d)
    THEN [i \in DOMAIN d |-> IF d[i].k = key THEN [k |-> key, v |-> val] ELSE d[i]]
    ELSE Append(d, [k |-> key, v |-> val])
Del(d, key) == SelectSeq(d, LAMBDA e : e.k # key)

\* dict without observable order (progress_notes, progress_times): a function
FPut(f, key, val) == [x \in DOMAIN f \cup {key} |-> IF x = key THEN val ELSE f[x]]
FDel(f, key) == [x \in DOMAIN f \ {key} |-> f[x]]
EmptyMap == [x \in {} |-> NoText]

\* sorted(items, key=lambda x: x[1], reverse=True): stable, so items with equal
\* dates keep their insertion order
RECURSIVE InsertDesc(_, _)
InsertDesc(s, e) ==
    IF s = <<>> THEN <<e>>
    ELSE IF LexLess(s[1].v, e.v) THEN <<e>> \o s
    ELSE <<s[1]>> \o InsertDesc(Tail(s), e)

RECURSIVE SortedDesc(_)
SortedDesc(d) ==
    IF d = <<>> THEN <<>>
    ELSE InsertDesc(SortedDesc(SubSeq(d, 1, Len(d) - 1)), d[Len(d)])

(***************************************************************************)
(* CaseData                                                                *)
(***************************************************************************)
NewCaseData ==
    [progress        |-> DefaultProgress,
     progress_date   |-> NoDate,
     progress_stages |-> <<>>,
     progress_notes  |-> EmptyMap,
     progress_times  |-> EmptyMap,
     updated_date    |-> 0]

Touch(r) == [r EXCEPT !.updated_date = @ + 1]

\* note / time handling of update_progress: set when truthy, else drop the entry
SetOrDrop(f, key, val) ==
    IF val # NoText THEN FPut(f, key, val)
    ELSE IF key \in DOMAIN f THEN FDel(f, key)
    ELSE f

\* note / time handling of add_progress_stage: set when truthy, else keep
SetIfGiven(f, key, val) == IF val # NoText THEN FPut(f, key, val) ELSE f

update_progress(r, new_progress, progress_date, note, time) ==
    Touch([r EXCEPT
        !.progress        = new_progress,
        !.progress_date   = progress_date,
        !.progress_stages = Put(@, new_progress, progress_date),
        !.progress_notes  = SetOrDrop(@, new_progress, note),
        !.progress_times  = SetOrDrop(@, new_progress, time)])

add_progress_stage(r, stage_name, stage_date, note, time) ==
    Touch([r EXCEPT
        !.progress_stages = Put(@, stage_name, stage_date),
        !.progress_notes  = SetIfGiven(@, stage_name, note),
        !.progress_times  = SetIfGiven(@, stage_name, time)])

update_stage_note(r, stage_name, note) ==
    IF stage_name \in Keys(r.progress_stages)
    THEN Touch([r EXCEPT !.progress_notes = SetOrDrop(@, stage_name, note)])
    ELSE r

update_stage_time(r, stage_name, time) ==
    IF stage_name \in Keys(r.progress_stages)
    THEN Touch([r EXCEPT !.progress_times = SetOrDrop(@, stage_name, time)])
    ELSE r

update_stage_date(r, stage_name, new_date) ==
    IF stage_name \in Keys(r.progress_stages)
    THEN Touch([r EXCEPT
        !.progress_stages = Put(@, stage_name, new_date),
        !.progress_date   = IF stage_name = r.progress THEN new_date ELSE @])
    ELSE r

\* mutant: the stage's note and time are left behind
RemoveStageMaps_KeepsNotes(r, stage_name) ==
    [r EXCEPT !.progress_stages = Del(@, stage_name)]

\* remove_progress_stage: the record after the call, and the returned bool
RemoveStageMaps(r, stage_name) ==
    [r EXCEPT
        !.progress_stages = Del(@, stage_name),
        !.progress_notes  = IF stage_name \in DOMAIN @ THEN FDel(@, stage_name) ELSE @,
        !.progress_times  = IF stage_name \in DOMAIN @ THEN FDel(@, stage_name) ELSE @]

\* mutant: the new progress is the first stage recorded, whatever its date
ReassignProgress_FirstInserted(r, stage_name) ==
    IF stage_name = r.progress
    THEN IF r.progress_stages # <<>>
         THEN [r EXCEPT !.progress = r.progress_stages[1].k]
         ELSE [r EXCEPT !.progress = ""]
    ELSE r

ReassignProgress(r, stage_name) ==
    IF stage_name = r.progress
    THEN IF r.progress_stages # <<>>
         THEN [r EXCEPT !.progress = SortedDesc(r.progress_stages)[1].k]
         ELSE [r EXCEPT !.progress = ""]
    ELSE r

remove_progress_stage_ret(r, stage_name) == stage_name \in Keys(r.progress_stages)

remove_progress_stage(r, stage_name) ==
    LET after == ReassignProgress(RemoveStageMaps(r, stage_name), stage_name)
    IN  IF remove_progress_stage_ret(r, stage_name) THEN Touch(after) ELSE after

(***************************************************************************)
(* SpecRecord: a fresh record under any sequence of stage operations       *)
(***************************************************************************)
\* stage_date / progress_date argument None: datetime.now() formatted, some date
DateArg == Dates

RecInit ==
    /\ rec = NewCaseData
    /\ removed = "none"
    /\ cases = <<>>
    /\ disk = {}
    /\ excel = {}
    /\ progress_files = {}
    /\ fm = "none"
    /\ saved = "none"
    /\ db = NoDatabase
    /\ call = "none"

CanCall == rec.updated_date < MaxClock

UpdateProgress ==
    /\ CanCall
    /\ \E s \in StageNames, d \in DateArg, n \in Notes \cup {NoText}, t \in Times \cup {NoText} :
         rec' = update_progress(rec, s, d, n, t)
    /\ removed' = "none"
    /\ UNCHANGED ctlvars

AddProgressStage ==
    /\ CanCall
    /\ \E s \in StageNames, d \in DateArg, n \in Notes \cup {NoText}, t \in Times \cup {NoText} :
         rec' = add_progress_stage(rec, s, d, n, t)
    /\ removed' = "none"
    /\ UNCHANGED ctlvars

UpdateStageNote ==
    /\ CanCall
    /\ \E s \in StageNames, n \in Notes \cup {NoText} :
         rec' = update_stage_note(rec, s, n)
    /\ removed' = "none"
    /\ UNCHANGED ctlvars

UpdateStageTime ==
    /\ CanCall
    /\ \E s \in StageNames, t \in Times \cup {NoText} :
         rec' = update_stage_time(rec, s, t)
    /\ removed' = "none"
    /\ UNCHANGED ctlvars

UpdateStageDate ==
    /\ CanCall
    /\ \E s \in StageNames, d \in Dates :
         rec' = update_stage_date(rec, s, d)
    /\ removed' = "none"
    /\ UNCHANGED ctlvars

RemoveProgressStage ==
    /\ CanCall
    /\ \E s \in StageNames :
         /\ rec' = remove_progress_stage(rec, s)
         /\ removed' = IF remove_progress_stage_ret(rec, s) THEN "True" ELSE "False"
    /\ UNCHANGED ctlvars

RecNext ==
    \/ UpdateProgress
    \/ AddProgressStage
    \/ UpdateStageNote
    \/ UpdateStageTime
    \/ UpdateStageDate
    \/ RemoveProgressStage

SpecRecord == RecInit /\ [][RecNext]_vars

(***************************************************************************)
(* Controller model: values                                                *)
(***************************************************************************)
\* at most this many records in the metadata store
MaxCases == 2

None == [case_id |-> "None", case_type |-> "None", client |-> "None"]
NoPath == <<>>

CaseA == [case_id |-> "113001", case_type |-> "civil",    client |-> "X"]
CaseB == [case_id |-> "113099", case_type |-> "civil",    client |-> "X"]
CaseC == [case_id |-> "113001", case_type |-> "criminal", client |-> "Y"]
\* the records callers add: A and B share case type and client (one folder),
\* A and C share the case id under different case types
SeedCases == {CaseA, CaseB, CaseC}
CaseIds == {"113001", "113099"}
CaseTypes == {"civil", "criminal"}

\* AppConfig.CASE_TYPE_FOLDERS
CASE_TYPE_FOLDERS == [civil |-> "civil_dir", criminal |-> "criminal_dir"]

\* AppConfig.CASE_TYPE_FOLDERS.get(case_type, case_type)
CaseTypeFolder(case_type) ==
    IF case_type \in DOMAIN CASE_TYPE_FOLDERS THEN CASE_TYPE_FOLDERS[case_type]
    ELSE case_type

\* mutant: the folder is named after the case id
FolderPath_ByCaseId(case) == <<CaseTypeFolder(case.case_type), case.case_id>>

\* os.path.join(data_folder, case_type_folder, case_data.client)
FolderPath(case) == <<CaseTypeFolder(case.case_type), case.client>>

(***************************************************************************)
(* Folder managers the constructor can end up with.                        *)
(*   create / delete : has create_case_folder_structure / delete_case_folder*)
(*   creator / operations : has the component                              *)
(*   checked : get_case_folder_path returns the path only if it exists     *)
(***************************************************************************)
NewFolderManager ==
    [kind |-> "new", create |-> TRUE, delete |-> TRUE, creator |-> TRUE,
     operations |-> TRUE, checked |-> TRUE]
NewFolderManagerComponents ==
    [kind |-> "new_components", create |-> FALSE, delete |-> FALSE, creator |-> TRUE,
     operations |-> TRUE, checked |-> TRUE]
OldFolderManager ==
    [kind |-> "old", create |-> TRUE, delete |-> TRUE, creator |-> FALSE,
     operations |-> FALSE, checked |-> TRUE]
PatchedFolderManager ==
    [kind |-> "patched", create |-> TRUE, delete |-> TRUE, creator |-> FALSE,
     operations |-> FALSE, checked |-> FALSE]
BasicFolderManager ==
    [kind |-> "basic", create |-> FALSE, delete |-> FALSE, creator |-> FALSE,
     operations |-> FALSE, checked |-> TRUE]
FolderManagers ==
    {NewFolderManager, NewFolderManagerComponents, OldFolderManager,
     PatchedFolderManager, BasicFolderManager}

\* folder_manager.get_case_folder_path(case_data)
fm_get_case_folder_path(f, dk, case) ==
    IF f.checked
    THEN IF FolderPath(case) \in dk THEN FolderPath(case) ELSE NoPath
    ELSE FolderPath(case)

(***************************************************************************)
(* Metadata store (CaseDataManager) and lookups                            *)
(***************************************************************************)
\* for case in cases: if <test>: return case ... return None
FirstMatch(cs, hits) ==
    IF hits = {} THEN None
    ELSE cs[CHOOSE i \in hits : \A j \in hits : i <= j]

\* data_manager.get_case_by_id: the first record with that case_id
get_case_by_id(cs, case_id) ==
    FirstMatch(cs, {i \in DOMAIN cs : cs[i].case_id = case_id})

\* mutant: the case type is not compared
get_case_by_id_and_type_IdOnly(cs, case_id, case_type) ==
    FirstMatch(cs, {i \in DOMAIN cs : cs[i].case_id = case_id})

\* CaseController.get_case_by_id_and_type
get_case_by_id_and_type(cs, case_id, case_type) ==
    FirstMatch(cs, {i \in DOMAIN cs : cs[i].case_id = case_id /\ cs[i].case_type = case_type})

HasKey(cs, case_id, case_type) ==
    \E i \in DOMAIN cs : cs[i].case_id = case_id /\ cs[i].case_type = case_type

\* data_manager.add_case / delete_case / update_case_id_with_files on success
dm_add(cs, case) == Append(cs, case)
dm_delete(cs, case_id, case_type) ==
    SelectSeq(cs, LAMBDA c : ~(c.case_id = case_id /\ c.case_type = case_type))
dm_update_case_id(cs, old_case_id, case_type, new_case_id) ==
    [i \in DOMAIN cs |->
        IF cs[i].case_id = old_case_id /\ cs[i].case_type = case_type
        THEN [cs[i] EXCEPT !.case_id = new_case_id]
        ELSE cs[i]]

\* what a metadata-store call can do: succeed only when its precondition
\* holds; report failure or raise (I/O) in any case
DmOutcomes(possible) == IF possible THEN {"ok", "fail", "raise"} ELSE {"fail", "raise"}

Step(name, out) == [step |-> name, out |-> out]
StepNames(trace) == [i \in DOMAIN trace |-> trace[i].step]
Invoked(trace, name) == \E i \in DOMAIN trace : trace[i].step = name
OutcomeOf(trace, name) == trace[CHOOSE i \in DOMAIN trace : trace[i].step = name].out

(***************************************************************************)
(* Collaborator outcomes.  "na": the call was not made.                    *)
(*   a deletion primitive: "ok"   did it and returned true                 *)
(*                         "fail" returned false or raised, nothing done:  *)
(*                                either way deletion_success stays False  *)
(*                         "lie"  returned true, nothing done              *)
(***************************************************************************)
OutSet(invoked, outs) == IF invoked THEN outs ELSE {"na"}
CallOuts == {"ok", "fail", "raise"}
PrimOuts == {"ok", "fail", "lie"}
RmtreeOuts == {"ok", "raise"}
\* the basic and the patched get_case_folder_path catch their own exceptions
LookupOuts(f) == IF f.kind \in {"basic", "patched"} THEN {"ok"} ELSE {"ok", "raise"}

(***************************************************************************)
(* CaseController.add_case                                                 *)
(*   e = [data, create, creator]                                           *)
(***************************************************************************)
add_case_creates(f, e) == e.data = "ok" /\ f.create
add_case_uses_creator(f, e) == e.data = "ok" /\ ~f.create /\ f.creator

\* mutant: the result also requires the folder to have been created
add_case_NeedsFolder(cs, dk, f, case_data, e) ==
    LET stored  == e.data = "ok"
        created == \/ add_case_creates(f, e) /\ e.create = "ok"
                   \/ add_case_uses_creator(f, e) /\ e.creator = "ok"
    IN  [ret   |-> stored /\ created,
         cases |-> IF stored THEN dm_add(cs, case_data) ELSE cs,
         disk  |-> IF created THEN dk \cup {FolderPath(case_data)} ELSE dk,
         trace |-> <<Step("data_manager.add_case", e.data)>>
                   \o (IF add_case_creates(f, e)
                       THEN <<Step("create_case_folder_structure", e.create)>>
                       ELSE IF stored THEN <<Step("create_case_folder_structure", "AttributeError")>>
                       ELSE <<>>)
                   \o (IF add_case_uses_creator(f, e)
                       THEN <<Step("creator.create_case_folder_structure", e.creator)>>
                       ELSE <<>>)]

add_case(cs, dk, f, case_data, e) ==
    LET stored  == e.data = "ok"
        created == \/ add_case_creates(f, e) /\ e.create = "ok"
                   \/ add_case_uses_creator(f, e) /\ e.creator = "ok"
    IN  [ret   |-> stored,
         cases |-> IF stored THEN dm_add(cs, case_data) ELSE cs,
         disk  |-> IF created THEN dk \cup {FolderPath(case_data)} ELSE dk,
         trace |-> <<Step("data_manager.add_case", e.data)>>
                   \o (IF add_case_creates(f, e)
                       THEN <<Step("create_case_folder_structure", e.create)>>
                       ELSE IF stored THEN <<Step("create_case_folder_structure", "AttributeError")>>
                       ELSE <<>>)
                   \o (IF add_case_uses_creator(f, e)
                       THEN <<Step("creator.create_case_folder_structure", e.creator)>>
                       ELSE <<>>)]

(***************************************************************************)
(* CaseController.delete_case_folder                                       *)
(*   e = [getPath, opsPath, fmDel, opsDel, rmtree]                         *)
(***************************************************************************)
\* the call so far: the record looked up, folder_path, the disk,
\* deletion_success, and whether the method has returned (with ret)
dcf_start(cs, dk, f, case_id) ==
    [case |-> get_case_by_id(cs, case_id), f |-> f, disk |-> dk, path |-> NoPath,
     deletion_success |-> FALSE,
     returned |-> get_case_by_id(cs, case_id) = None, ret |-> FALSE]

\* method 1: folder_manager.get_case_folder_path
dcf_uses_method1(s) == ~s.returned
dcf_method1(s, out) ==
    IF dcf_uses_method1(s) /\ out = "ok"
    THEN [s EXCEPT !.path = fm_get_case_folder_path(s.f, s.disk, s.case)]
    ELSE s

\* method 2: folder_manager.operations.get_case_folder_path
dcf_uses_method2(s) == ~s.returned /\ s.path = NoPath /\ s.f.operations
dcf_method2(s, out) ==
    IF dcf_uses_method2(s) /\ out = "ok" /\ FolderPath(s.case) \in s.disk
    THEN [s EXCEPT !.path = FolderPath(s.case)]
    ELSE s

\* no path: False; the folder does not exist: True
dcf_check(s) ==
    IF s.returned THEN s
    ELSE IF s.path = NoPath THEN [s EXCEPT !.returned = TRUE, !.ret = FALSE]
    ELSE IF s.path \notin s.disk THEN [s EXCEPT !.returned = TRUE, !.ret = TRUE]
    ELSE s

\* a deletion primitive that removes `path`
dcf_primitive(s, out, path) ==
    [s EXCEPT !.deletion_success = out \in {"ok", "lie"},
              !.disk = IF out = "ok" THEN @ \ {path} ELSE @]

\* attempt 1: folder_manager.delete_case_folder(case)
dcf_uses_attempt1(s) == ~s.returned /\ s.f.delete
dcf_attempt1(s, out) ==
    IF dcf_uses_attempt1(s) THEN dcf_primitive(s, out, FolderPath(s.case)) ELSE s

\* attempt 2: folder_manager.operations.delete_case_folder(case)
dcf_uses_attempt2(s) == ~s.returned /\ ~s.deletion_success /\ s.f.operations
dcf_attempt2(s, out) ==
    IF dcf_uses_attempt2(s) THEN dcf_primitive(s, out, FolderPath(s.case)) ELSE s

\* attempt 3: shutil.rmtree(folder_path)
dcf_uses_attempt3(s) == ~s.returned /\ ~s.deletion_success
dcf_attempt3(s, out) ==
    IF dcf_uses_attempt3(s) THEN dcf_primitive(s, out, s.path) ELSE s

\* mutant: what the deletion primitive reported is returned unverified
dcf_verify_TrustsPrimitive(s) ==
    IF s.returned THEN s
    ELSE [s EXCEPT !.returned = TRUE, !.ret = s.deletion_success]

\* the verification: os.path.exists(folder_path) again
dcf_verify(s) ==
    IF s.returned THEN s
    ELSE [s EXCEPT !.returned = TRUE,
                   !.ret = s.deletion_success /\ s.path \notin s.disk]

delete_case_folder(cs, dk, f, case_id, e) ==
    LET s1 == dcf_method1(dcf_start(cs, dk, f, case_id), e.getPath)
        s2 == dcf_check(dcf_method2(s1, e.opsPath))
        s3 == dcf_attempt1(s2, e.fmDel)
        s4 == dcf_attempt2(s3, e.opsDel)
        s5 == dcf_attempt3(s4, e.rmtree)
        s6 == dcf_verify(s5)
    IN  [ret |-> s6.ret, disk |-> s6.disk,
         \* deletion_success as the deletion attempts left it ("na": the method
         \* returned before them)
         deletion_success |-> IF s5.returned THEN "na"
                              ELSE IF s5.deletion_success THEN "True" ELSE "False"]

NoFolderEnv ==
    [getPath |-> "na", opsPath |-> "na", fmDel |-> "na", opsDel |-> "na", rmtree |-> "na"]

(***************************************************************************)
(* CaseController.delete_case                                              *)
(*   case_type NoType: the caller gave none.  e = folder env + [data]      *)
(***************************************************************************)
NoType == "None"

\* mutant: the given case type is not used to resolve the record
delete_case_resolve_IdOnly(cs, case_id, case_type) ==
    get_case_by_id(cs, case_id)

delete_case_resolve(cs, case_id, case_type) ==
    IF case_type = NoType THEN get_case_by_id(cs, case_id)
    ELSE get_case_by_id_and_type(cs, case_id, case_type)

\* mutant: overall_success also requires folder_deletion_success
delete_case_NeedsFolder(cs, dk, f, case_id, case_type, delete_folder, e) ==
    LET case   == delete_case_resolve(cs, case_id, case_type)
        ctype  == IF case_type = NoType THEN case.case_type ELSE case_type
        folder == IF delete_folder THEN delete_case_folder(cs, dk, f, case_id, e)
                  ELSE [ret |-> TRUE, disk |-> dk]
        data_deletion_success == e.data = "ok"
    IN  IF case = None
        THEN [ret |-> FALSE, cases |-> cs, disk |-> dk,
              trace |-> <<Step("resolve", "not_found")>>]
        ELSE [ret   |-> data_deletion_success /\ folder.ret,
              cases |-> IF data_deletion_success THEN dm_delete(cs, case_id, ctype) ELSE cs,
              disk  |-> folder.disk,
              trace |-> <<Step("resolve", "found")>>
                        \o (IF delete_folder
                            THEN <<Step("deletion_success", folder.deletion_success),
                                   Step("delete_case_folder",
                                        IF folder.ret THEN "True" ELSE "False")>>
                            ELSE <<>>)
                        \o <<Step("data_manager.delete_case", e.data)>>]

delete_case(cs, dk, f, case_id, case_type, delete_folder, e) ==
    LET case   == delete_case_resolve(cs, case_id, case_type)
        ctype  == IF case_type = NoType THEN case.case_type ELSE case_type
        folder == IF delete_folder THEN delete_case_folder(cs, dk, f, case_id, e)
                  ELSE [ret |-> TRUE, disk |-> dk]
        data_deletion_success == e.data = "ok"
    IN  IF case = None
        THEN [ret |-> FALSE, cases |-> cs, disk |-> dk,
              trace |-> <<Step("resolve", "not_found")>>]
        ELSE [ret   |-> data_deletion_success,
              cases |-> IF data_deletion_success THEN dm_delete(cs, case_id, ctype) ELSE cs,
              disk  |-> folder.disk,
              trace |-> <<Step("resolve", "found")>>
                        \o (IF delete_folder
                            THEN <<Step("deletion_success", folder.deletion_success),
                                   Step("delete_case_folder",
                                        IF folder.ret THEN "True" ELSE "False")>>
                            ELSE <<>>)
                        \o <<Step("data_manager.delete_case", e.data)>>]

(***************************************************************************)
(* CaseController.update_case_id                                           *)
(*   e = [val, data, excel, progress]                                      *)
(***************************************************************************)
\* validator.validate_case_id_update: new_case_id already used in case_type
Collides(cs, case_type, new_case_id) == HasKey(cs, new_case_id, case_type)

\* rows / artifacts that refer to old_case_id now refer to new_case_id
RenameRefs(ids, old_case_id, new_case_id) ==
    IF old_case_id \in ids THEN (ids \ {old_case_id}) \cup {new_case_id} ELSE ids

\* "，".join(result_parts): a message is the sequence of its tokens
RECURSIVE Join(_, _)
Join(sep, parts) ==
    IF parts = <<>> THEN <<>>
    ELSE IF Len(parts) = 1 THEN <<parts[1]>>
    ELSE <<parts[1], sep>> \o Join(sep, Tail(parts))

Comma == ","
ExcelUpdated == "Excel content updated"          \* "Excel內容已更新"
ProgressUpdated == "progress files updated"      \* "進度檔案已更新"
CoordinationFailed == "coordination failed"      \* f"協調更新失敗: {str(e)}"
ValidationMessage == "validation_message"
DataMessage(out) == IF out = "ok" THEN "data_message" ELSE "data_message: failed"

\* step 1 passed; step 2 succeeded; step 3 returned; step 4 returned
uci_validated(e) == e.val = "ok"
\* mutant: a failed step 2 does not end the saga
uci_renamed_IgnoresFailure(e) == uci_validated(e) /\ e.data # "raise"
uci_renamed(e) == uci_validated(e) /\ e.data = "ok"
\* mutant: a failed step 3 ends the saga
uci_excel_done_StopsOnFailure(e) == uci_renamed(e) /\ e.excel = "ok"
uci_excel_done(e) == uci_renamed(e) /\ e.excel # "raise"
uci_completed(e) == uci_excel_done(e) /\ e.progress # "raise"
uci_raised(e) ==
    \/ e.val = "raise"
    \/ uci_validated(e) /\ e.data = "raise"
    \/ uci_renamed(e) /\ e.excel = "raise"
    \/ uci_excel_done(e) /\ e.progress = "raise"

\* mutant: the Excel part is appended whatever step 3 returned
uci_result_parts_AlwaysExcel(e) ==
    <<DataMessage(e.data)>>
    \o <<ExcelUpdated>>
    \o (IF e.progress = "ok" THEN <<ProgressUpdated>> ELSE <<>>)

uci_result_parts(e) ==
    <<DataMessage(e.data)>>
    \o (IF e.excel = "ok" THEN <<ExcelUpdated>> ELSE <<>>)
    \o (IF e.progress = "ok" THEN <<ProgressUpdated>> ELSE <<>>)

uci_message(e) ==
    IF uci_raised(e) THEN <<CoordinationFailed>>
    ELSE IF ~uci_validated(e) THEN <<ValidationMessage>>
    ELSE IF ~uci_renamed(e) THEN <<DataMessage(e.data)>>
    ELSE Join(Comma, uci_result_parts(e))

uci_trace(e) ==
    <<Step("validate_case_id_update", e.val)>>
    \o (IF uci_validated(e) THEN <<Step("update_case_id_with_files", e.data)>> ELSE <<>>)
    \o (IF uci_renamed(e)
        THEN <<Step("update_excel_content_for_case_id_change", e.excel)>> ELSE <<>>)
    \o (IF uci_excel_done(e)
        THEN <<Step("update_progress_files_for_case_id_change", e.progress)>> ELSE <<>>)

\* mutant: the validation result is not looked at
update_case_id_SkipsValidation(cs, xl, pf, old_case_id, case_type, new_case_id, e) ==
    [ret   |-> e.val # "raise",
     msg   |-> <<DataMessage("ok")>>,
     trace |-> uci_trace(e),
     cases |-> IF e.val # "raise"
               THEN dm_update_case_id(cs, old_case_id, case_type, new_case_id) ELSE cs,
     excel |-> xl,
     progress_files |-> pf]

update_case_id(cs, xl, pf, old_case_id, case_type, new_case_id, e) ==
    [ret   |-> uci_completed(e),
     msg   |-> uci_message(e),
     trace |-> uci_trace(e),
     cases |-> IF uci_renamed(e)
               THEN dm_update_case_id(cs, old_case_id, case_type, new_case_id) ELSE cs,
     excel |-> IF uci_renamed(e) /\ e.excel = "ok"
               THEN RenameRefs(xl, old_case_id, new_case_id) ELSE xl,
     progress_files |->
               IF uci_excel_done(e) /\ e.progress = "ok"
               THEN RenameRefs(pf, old_case_id, new_case_id) ELSE pf]

(***************************************************************************)
(* Spec: the controller over a fresh data folder, cases added and deleted  *)
(***************************************************************************)
Call(op, arg, ret, msg, trace) ==
    [op |-> op, arg |-> arg, ret |-> ret, msg |-> msg, trace |-> trace]

Init ==
    /\ cases = <<>>
    /\ disk = {}
    /\ excel = {}
    /\ progress_files = {}
    /\ fm \in FolderManagers
    /\ saved = "none"
    /\ db = NoDatabase
    /\ call = Call("__init__", <<>>, TRUE, <<>>, <<>>)
    /\ rec = NewCaseData
    /\ removed = "none"

AddCase ==
    \E case_data \in SeedCases :
    \E d \in DmOutcomes(~HasKey(cases, case_data.case_id, case_data.case_type)
                        /\ Len(cases) < MaxCases) :
    \E c \in OutSet(add_case_creates(fm, [data |-> d]), CallOuts) :
    \E k \in OutSet(add_case_uses_creator(fm, [data |-> d]), CallOuts) :
        LET e == [data |-> d, create |-> c, creator |-> k]
            r == add_case(cases, disk, fm, case_data, e)
        IN  /\ cases' = r.cases
            /\ disk' = r.disk
            /\ call' = Call("add_case", case_data, r.ret, <<>>, r.trace)
            /\ UNCHANGED <<excel, progress_files, fm, saved, rec, removed, db>>

DeleteCase ==
    \E case_id \in CaseIds, case_type \in CaseTypes \cup {NoType}, delete_folder \in BOOLEAN :
    LET found == delete_case_resolve(cases, case_id, case_type) # None
        reaches == delete_folder /\ found
        s0 == dcf_start(cases, disk, fm, case_id)
    IN
    \E gp \in OutSet(reaches /\ dcf_uses_method1(s0), LookupOuts(fm)) :
    LET s1 == dcf_method1(s0, gp) IN
    \E op \in OutSet(reaches /\ dcf_uses_method2(s1), {"ok", "raise"}) :
    LET s2 == dcf_check(dcf_method2(s1, op)) IN
    \E fd \in OutSet(reaches /\ dcf_uses_attempt1(s2), PrimOuts) :
    LET s3 == dcf_attempt1(s2, fd) IN
    \E od \in OutSet(reaches /\ dcf_uses_attempt2(s3), PrimOuts) :
    LET s4 == dcf_attempt2(s3, od) IN
    \E rm \in OutSet(reaches /\ dcf_uses_attempt3(s4), RmtreeOuts) :
    \E d \in OutSet(found, CallOuts) :
        LET e == [getPath |-> gp, opsPath |-> op, fmDel |-> fd, opsDel |-> od,
                  rmtree |-> rm, data |-> d]
            r == delete_case(cases, disk, fm, case_id, case_type, delete_folder, e)
        IN  /\ cases' = r.cases
            /\ disk' = r.disk
            /\ call' = Call("delete_case",
                            [case_id |-> case_id, case_type |-> case_type,
                             delete_folder |-> delete_folder],
                            r.ret, <<>>, r.trace)
            /\ UNCHANGED <<excel, progress_files, fm, saved, rec, removed, db>>

Next ==
    \/ AddCase
    \/ DeleteCase

Spec == Init /\ [][Next]_vars

(***************************************************************************)
(* SpecRename: the controller over a loaded store and existing artifacts,  *)
(* case ids renamed                                                        *)
(***************************************************************************)
\* the stores load_cases can produce: records with pairwise distinct
\* (case_id, case_type)
Stores ==
    {s \in UNION {[1..n -> SeedCases] : n \in 0..MaxCases} :
        \A i, j \in DOMAIN s :
            i # j => ~(s[i].case_id = s[j].case_id /\ s[i].case_type = s[j].case_type)}

RenameInit ==
    /\ cases \in Stores
    /\ disk = {}
    /\ excel \in SUBSET CaseIds
    /\ progress_files \in SUBSET CaseIds
    /\ fm = BasicFolderManager
    /\ saved = "none"
    /\ db = NoDatabase
    /\ call = Call("__init__", <<>>, TRUE, <<>>, <<>>)
    /\ rec = NewCaseData
    /\ removed = "none"

UpdateCaseId ==
    \E old_case_id \in CaseIds, case_type \in CaseTypes, new_case_id \in CaseIds :
    \E v \in DmOutcomes(~Collides(cases, case_type, new_case_id)) :
    \E d \in OutSet(uci_validated([val |-> v]),
                    DmOutcomes(HasKey(cases, old_case_id, case_type))) :
    \E x \in OutSet(uci_renamed([val |-> v, data |-> d]), CallOuts) :
    \E p \in OutSet(uci_excel_done([val |-> v, data |-> d, excel |-> x]), CallOuts) :
        LET e == [val |-> v, data |-> d, excel |-> x, progress |-> p]
            r == update_case_id(cases, excel, progress_files,
                                old_case_id, case_type, new_case_id, e)
        IN  /\ cases' = r.cases
            /\ excel' = r.excel
            /\ progress_files' = r.progress_files
            /\ call' = Call("update_case_id",
                            [old_case_id |-> old_case_id, case_type |-> case_type,
                             new_case_id |-> new_case_id],
                            r.ret, r.msg, r.trace)
            /\ UNCHANGED <<disk, fm, saved, rec, removed, db>>

RenameNext == UpdateCaseId

SpecRename == RenameInit /\ [][RenameNext]_vars

(***************************************************************************)
(* Progress-stage sagas: CaseController.add / update / remove                *)
(* _case_progress_stage.  `rec` is the in-memory record of the stored case   *)
(* CaseA, `saved` the record as the last successful save_cases wrote it.     *)
(*   m = [rec, result]: what the progress manager leaves in memory and       *)
(*       returns when it does not raise                                      *)
(*   e = [pm, save]: "raise" for pm when the progress manager raises (before *)
(*       changing the record), save the outcome of save_cases                *)
(***************************************************************************)
\* CaseProgressManager: look the case up by id, apply the stage operation of
\* its CaseData, report whether it was applied
pm_add_progress_stage(r, found, stage_name, stage_date, note, time) ==
    IF found
    THEN [rec |-> add_progress_stage(r, stage_name, stage_date, note, time),
          result |-> TRUE]
    ELSE [rec |-> r, result |-> FALSE]

pm_update_progress_stage(r, found, stage_name, stage_date, note, time) ==
    IF found /\ stage_name \in Keys(r.progress_stages)
    THEN [rec |-> update_stage_time(
                      update_stage_note(
                          update_stage_date(r, stage_name, stage_date),
                          stage_name, note),
                      stage_name, time),
          result |-> TRUE]
    ELSE [rec |-> r, result |-> FALSE]

pm_remove_progress_stage(r, found, stage_name) ==
    IF found
    THEN [rec |-> remove_progress_stage(r, stage_name),
          result |-> remove_progress_stage_ret(r, stage_name)]
    ELSE [rec |-> r, result |-> FALSE]

\* mutant: the saga returns the progress manager's result, whatever the save did
progress_saga_IgnoresSave(r, sv, step, m, e) ==
    LET result == e.pm = "ok" /\ m.result
        mem    == IF e.pm = "ok" THEN m.rec ELSE r
        save_result == result /\ e.save = "ok"
    IN  [ret   |-> result,
         rec   |-> mem,
         saved |-> IF save_result THEN mem ELSE sv,
         trace |-> <<Step(step, IF e.pm # "ok" THEN e.pm
                                ELSE IF m.result THEN "ok" ELSE "fail")>>
                   \o (IF result THEN <<Step("save_cases", e.save)>> ELSE <<>>)]

\* the body the three sagas share: result = progress_manager.<step>(...);
\* if result: save_result = self.save_cases(); return True only if save_result
progress_saga(r, sv, step, m, e) ==
    LET result == e.pm = "ok" /\ m.result
        mem    == IF e.pm = "ok" THEN m.rec ELSE r
        save_result == result /\ e.save = "ok"
    IN  [ret   |-> save_result,
         rec   |-> mem,
         saved |-> IF save_result THEN mem ELSE sv,
         trace |-> <<Step(step, IF e.pm # "ok" THEN e.pm
                                ELSE IF m.result THEN "ok" ELSE "fail")>>
                   \o (IF result THEN <<Step("save_cases", e.save)>> ELSE <<>>)]

add_case_progress_stage(cs, r, sv, case_id, stage_name, stage_date, note, time, e) ==
    progress_saga(r, sv, "progress_manager.add_progress_stage",
        pm_add_progress_stage(r, get_case_by_id(cs, case_id) # None,
                              stage_name, stage_date, note, time), e)

update_case_progress_stage(cs, r, sv, case_id, stage_name, stage_date, note, time, e) ==
    progress_saga(r, sv, "progress_manager.update_progress_stage",
        pm_update_progress_stage(r, get_case_by_id(cs, case_id) # None,
                                 stage_name, stage_date, note, time), e)

remove_case_progress_stage(cs, r, sv, case_id, stage_name, e) ==
    progress_saga(r, sv, "progress_manager.remove_progress_stage",
        pm_remove_progress_stage(r, get_case_by_id(cs, case_id) # None, stage_name), e)

(***************************************************************************)
(* SpecProgress: the controller over a store that holds CaseA, stages of   *)
(* that case added, updated and removed                                    *)
(***************************************************************************)
ProgressInit ==
    /\ cases = <<CaseA>>
    /\ rec = NewCaseData
    /\ saved = NewCaseData
    /\ db = NoDatabase
    /\ removed = "none"
    /\ disk = {}
    /\ excel = {}
    /\ progress_files = {}
    /\ fm = BasicFolderManager
    /\ call = Call("__init__", <<>>, TRUE, <<>>, <<>>)

\* the sagas are called while the record's updated_date is below this value
MaxSagaClock == 2

\* what callers of the sagas pass: two stage names, a note or none, no time
SagaStages == {DefaultProgress, "filed"}
SagaNotes == Notes \cup {NoText}
SagaTimes == {NoText}
CanCallSaga == rec.updated_date < MaxSagaClock

StageArg(case_id, stage_name, stage_date, note, time) ==
    [case_id |-> case_id, stage_name |-> stage_name, stage_date |-> stage_date,
     note |-> note, time |-> time]

\* the outcomes of save_cases when the saga reaches it
SaveOuts(m, pm) == OutSet(pm = "ok" /\ m.result, CallOuts)

AddCaseProgressStage ==
    /\ CanCallSaga
    /\ \E case_id \in CaseIds, s \in SagaStages, d \in Dates,
          n \in SagaNotes, t \in SagaTimes, pm \in {"ok", "raise"} :
       \E sv \in SaveOuts(pm_add_progress_stage(rec, get_case_by_id(cases, case_id) # None,
                                                 s, d, n, t), pm) :
          LET r == add_case_progress_stage(cases, rec, saved, case_id, s, d, n, t,
                                           [pm |-> pm, save |-> sv])
          IN  /\ rec' = r.rec
              /\ saved' = r.saved
              /\ call' = Call("add_case_progress_stage", StageArg(case_id, s, d, n, t),
                              r.ret, <<>>, r.trace)
    /\ UNCHANGED <<removed, cases, disk, excel, progress_files, fm, db>>

UpdateCaseProgressStage ==
    /\ CanCallSaga
    /\ \E case_id \in CaseIds, s \in SagaStages, d \in Dates,
          n \in SagaNotes, t \in SagaTimes, pm \in {"ok", "raise"} :
       \E sv \in SaveOuts(pm_update_progress_stage(rec, get_case_by_id(cases, case_id) # None,
                                                    s, d, n, t), pm) :
          LET r == update_case_progress_stage(cases, rec, saved, case_id, s, d, n, t,
                                              [pm |-> pm, save |-> sv])
          IN  /\ rec' = r.rec
              /\ saved' = r.saved
              /\ call' = Call("update_case_progress_stage", StageArg(case_id, s, d, n, t),
                              r.ret, <<>>, r.trace)
    /\ UNCHANGED <<removed, cases, disk, excel, progress_files, fm, db>>

RemoveCaseProgressStage ==
    /\ CanCallSaga
    /\ \E case_id \in CaseIds, s \in SagaStages, pm \in {"ok", "raise"} :
       \E sv \in SaveOuts(pm_remove_progress_stage(rec, get_case_by_id(cases, case_id) # None, s),
                           pm) :
          LET r == remove_case_progress_stage(cases, rec, saved, case_id, s,
                                              [pm |-> pm, save |-> sv])
          IN  /\ rec' = r.rec
              /\ saved' = r.saved
              /\ call' = Call("remove_case_progress_stage",
                              StageArg(case_id, s, NoDate, NoText, NoText),
                              r.ret, <<>>, r.trace)
    /\ UNCHANGED <<removed, cases, disk, excel, progress_files, fm, db>>

ProgressNext ==
    \/ AddCaseProgressStage
    \/ UpdateCaseProgressStage
    \/ RemoveCaseProgressStage

SpecProgress == ProgressInit /\ [][ProgressNext]_vars

(***************************************************************************)
(* The other controller operations: update_case, the folder queries,       *)
(* import and export.                                                      *)
(***************************************************************************)
\* how a method ends: with a returned value, or with an exception that
\* escapes to the caller (then `value` is what it would have returned)
Returned(value) == [escaped |-> FALSE, value |-> value]
Escaped(value) == [escaped |-> TRUE, value |-> value]

\* the message token that marks a call an exception escaped from
Raised == "raised"
EscapeMsg(t) == IF t.escaped THEN <<Raised>> ELSE <<>>

\* mutant: the method has no except clause
try_except_NoHandler(raises, value, handler) ==
    IF raises THEN Escaped(handler) ELSE Returned(value)

\* try: return <value>  except Exception: return <handler>
try_except(raises, value, handler) ==
    IF raises THEN Returned(handler) ELSE Returned(value)

\* CaseController.update_case; case_data is a stored record with fields other
\* than case_id, case_type and client edited, so `cases` reads the same
update_case(cs, case_data, e) ==
    [end   |-> try_except(e.data = "raise", e.data = "ok", FALSE),
     cases |-> cs,
     trace |-> <<Step("data_manager.update_case", e.data)>>]

\* CaseController.get_case_folder_path(case_id)
get_case_folder_path(cs, dk, f, case_id, out) ==
    LET case == get_case_by_id(cs, case_id)
    IN  try_except(case # None /\ out = "raise",
                   IF case = None THEN NoPath ELSE fm_get_case_folder_path(f, dk, case),
                   NoPath)

\* hasattr(folder_manager, 'get_stage_folder_path') / 'get_case_folder_info'
fm_has_get_stage_folder_path(f) == f.kind \in {"new", "old", "patched"}
fm_has_get_case_folder_info(f) == f.kind \in {"new", "old", "patched"}

\* the stage folder of a case
StageFolderPath(case, stage_name) == FolderPath(case) \o <<stage_name>>

\* CaseController.get_case_stage_folder_path(case_id, stage_name)
\*   out: what the folder manager's method does ("path", "none", "raise"),
\*        "na" when none is called
get_case_stage_folder_path_calls(cs, f, case_id) ==
    /\ get_case_by_id(cs, case_id) # None
    /\ fm_has_get_stage_folder_path(f) \/ f.operations

\* mutant: a folder manager without the method makes the call raise
get_case_stage_folder_path_Unguarded(cs, f, case_id, stage_name, out) ==
    LET case == get_case_by_id(cs, case_id)
    IN  IF case # None /\ ~get_case_stage_folder_path_calls(cs, f, case_id)
        THEN Escaped(NoPath)
        ELSE Returned(IF out = "path" THEN StageFolderPath(case, stage_name) ELSE NoPath)

get_case_stage_folder_path(cs, f, case_id, stage_name, out) ==
    LET case == get_case_by_id(cs, case_id)
    IN  try_except(out = "raise",
                   IF get_case_stage_folder_path_calls(cs, f, case_id) /\ out = "path"
                   THEN StageFolderPath(case, stage_name)
                   ELSE NoPath,
                   NoPath)

\* the dict get_case_folder_info returns, as [exists, path, error]
FolderInfo(exists, path, error) == [exists |-> exists, path |-> path, error |-> error]

\* CaseController.get_case_folder_info(case_id)
\*   out: what the folder manager's get_case_folder_info does, "na" when the
\*        basic branch is taken; path_out: the lookup of the basic branch
get_case_folder_info_delegates(cs, f, case_id) ==
    /\ get_case_by_id(cs, case_id) # None
    /\ f.operations \/ fm_has_get_case_folder_info(f)

get_case_folder_info_basic(cs, f, case_id) ==
    /\ get_case_by_id(cs, case_id) # None
    /\ ~(f.operations \/ fm_has_get_case_folder_info(f))

get_case_folder_info(cs, dk, f, case_id, out, path_out) ==
    LET case == get_case_by_id(cs, case_id)
        folder_path == get_case_folder_path(cs, dk, f, case_id, path_out).value
        \* `import os` inside the branch makes os a local name of the method:
        \* os.path.exists(folder_path), reached when folder_path is truthy,
        \* raises UnboundLocalError
        unbound == get_case_folder_info_basic(cs, f, case_id) /\ folder_path # NoPath
    IN  try_except(out = "raise" \/ unbound,
                   IF case = None THEN FolderInfo(FALSE, NoPath, FALSE)
                   ELSE IF get_case_folder_info_delegates(cs, f, case_id)
                   THEN FolderInfo(FolderPath(case) \in dk,
                                   IF FolderPath(case) \in dk THEN FolderPath(case)
                                   ELSE NoPath, FALSE)
                   ELSE FolderInfo(FALSE, folder_path, FALSE),
                   FolderInfo(FALSE, NoPath, TRUE))

\* CaseController.import_from_excel: on success the store is loaded again
\*   e = [import, load]; reloaded: the store load_cases then reads
import_from_excel(cs, reloaded, e) ==
    [end   |-> try_except(e.import = "raise" \/ e.load = "raise", e.import = "ok", FALSE),
     cases |-> IF e.import = "ok" /\ e.load = "ok" THEN reloaded ELSE cs,
     trace |-> <<Step("import_export.import_from_excel", e.import)>>
               \o (IF e.import = "ok" THEN <<Step("load_cases", e.load)>> ELSE <<>>)]

\* CaseController.export_to_excel: the rows written are the stored cases
export_to_excel(cs, xl, e) ==
    [end   |-> try_except(e.export = "raise", e.export = "ok", FALSE),
     excel |-> IF e.export = "ok" THEN {cs[i].case_id : i \in DOMAIN cs} ELSE xl,
     trace |-> <<Step("import_export.export_to_excel", e.export)>>]

(***************************************************************************)
(* SpecCall: one call of any controller operation on a controller that has *)
(* loaded a store, over any set of existing case folders and with any      *)
(* folder manager                                                          *)
(***************************************************************************)
\* a record whose case type is not in CASE_TYPE_FOLDERS
CaseU == [case_id |-> "113099", case_type |-> "tax", client |-> "Y"]
CallStores == Stores \cup {<<CaseU>>, <<CaseC, CaseU>>}
CallFolders == {FolderPath(c) : c \in SeedCases \cup {CaseU}}

CallInit ==
    /\ cases \in CallStores
    /\ disk \in SUBSET CallFolders
    /\ fm \in FolderManagers
    /\ excel = {}
    /\ progress_files = {}
    /\ rec = NewCaseData
    /\ saved = NewCaseData
    /\ db = NoDatabase
    /\ removed = "none"
    /\ call = Call("__init__", <<>>, TRUE, <<>>, <<>>)

UpdateCase ==
    \E case_data \in SeedCases :
    \E d \in DmOutcomes(get_case_by_id(cases, case_data.case_id) # None) :
        LET r == update_case(cases, case_data, [data |-> d])
        IN  /\ cases' = r.cases
            /\ call' = Call("update_case", case_data, r.end.value, EscapeMsg(r.end), r.trace)
            /\ UNCHANGED <<disk, excel, progress_files, fm, saved, rec, removed, db>>

DeleteCaseFolder ==
    \E case_id \in CaseIds :
    LET s0 == dcf_start(cases, disk, fm, case_id) IN
    \E gp \in OutSet(dcf_uses_method1(s0), LookupOuts(fm)) :
    LET s1 == dcf_method1(s0, gp) IN
    \E op \in OutSet(dcf_uses_method2(s1), {"ok", "raise"}) :
    LET s2 == dcf_check(dcf_method2(s1, op)) IN
    \E fd \in OutSet(dcf_uses_attempt1(s2), PrimOuts) :
    LET s3 == dcf_attempt1(s2, fd) IN
    \E od \in OutSet(dcf_uses_attempt2(s3), PrimOuts) :
    LET s4 == dcf_attempt2(s3, od) IN
    \E rm \in OutSet(dcf_uses_attempt3(s4), RmtreeOuts) :
        LET e == [getPath |-> gp, opsPath |-> op, fmDel |-> fd, opsDel |-> od,
                  rmtree |-> rm]
            r == delete_case_folder(cases, disk, fm, case_id, e)
        IN  /\ disk' = r.disk
            /\ call' = Call("delete_case_folder", [case_id |-> case_id], r.ret, <<>>,
                            <<Step("deletion_success", r.deletion_success)>>)
            /\ UNCHANGED <<cases, excel, progress_files, fm, saved, rec, removed, db>>

ImportFromExcel ==
    \E i \in CallOuts :
    \E l \in OutSet(i = "ok", CallOuts) :
    \E reloaded \in {s \in Stores : \A k \in DOMAIN cases : \E j \in DOMAIN s : s[j] = cases[k]}
                     \cup {cases} :
        LET r == import_from_excel(cases, reloaded, [import |-> i, load |-> l])
        IN  /\ cases' = r.cases
            /\ call' = Call("import_from_excel", <<>>, r.end.value,
                            <<"report">> \o EscapeMsg(r.end), r.trace)
            /\ UNCHANGED <<disk, excel, progress_files, fm, saved, rec, removed, db>>

ExportToExcel ==
    \E x \in CallOuts :
        LET r == export_to_excel(cases, excel, [export |-> x])
        IN  /\ excel' = r.excel
            /\ call' = Call("export_to_excel", <<>>, r.end.value, EscapeMsg(r.end), r.trace)
            /\ UNCHANGED <<cases, disk, progress_files, fm, saved, rec, removed, db>>

GetCaseFolderPath ==
    \E case_id \in CaseIds :
    \E out \in OutSet(get_case_by_id(cases, case_id) # None, LookupOuts(fm)) :
        /\ LET r == get_case_folder_path(cases, disk, fm, case_id, out)
           IN call' = Call("get_case_folder_path", [case_id |-> case_id],
                         r.value, EscapeMsg(r),
                         <<Step("folder_manager.get_case_folder_path", out)>>)
        /\ UNCHANGED <<cases, disk, excel, progress_files, fm, saved, rec, removed, db>>

GetCaseStageFolderPath ==
    \E case_id \in CaseIds, stage_name \in SagaStages :
    \E out \in OutSet(get_case_stage_folder_path_calls(cases, fm, case_id),
                       {"path", "none", "raise"}) :
        /\ LET r == get_case_stage_folder_path(cases, fm, case_id, stage_name, out)
           IN call' = Call("get_case_stage_folder_path",
                         [case_id |-> case_id, stage_name |-> stage_name],
                         r.value, EscapeMsg(r), <<Step("get_stage_folder_path", out)>>)
        /\ UNCHANGED <<cases, disk, excel, progress_files, fm, saved, rec, removed, db>>

GetCaseFolderInfo ==
    \E case_id \in CaseIds :
    \E out \in OutSet(get_case_folder_info_delegates(cases, fm, case_id), {"ok", "raise"}) :
    \E path_out \in OutSet(get_case_folder_info_basic(cases, fm, case_id), LookupOuts(fm)) :
        /\ LET r == get_case_folder_info(cases, disk, fm, case_id, out, path_out)
           IN call' = Call("get_case_folder_info", [case_id |-> case_id],
                         r.value, EscapeMsg(r),
                         <<Step("folder_manager.get_case_folder_info", out)>>)
        /\ UNCHANGED <<cases, disk, excel, progress_files, fm, saved, rec, removed, db>>

\* the call is the first one on this controller
FirstCall == call.op = "__init__"

CallNext ==
    \/ FirstCall /\ AddCase
    \/ FirstCall /\ UpdateCase
    \/ FirstCall /\ DeleteCase
    \/ FirstCall /\ UpdateCaseId
    \/ FirstCall /\ AddCaseProgressStage
    \/ FirstCall /\ UpdateCaseProgressStage
    \/ FirstCall /\ RemoveCaseProgressStage
    \/ FirstCall /\ DeleteCaseFolder
    \/ FirstCall /\ ImportFromExcel
    \/ FirstCall /\ ExportToExcel
    \/ FirstCall /\ GetCaseFolderPath
    \/ FirstCall /\ GetCaseStageFolderPath
    \/ FirstCall /\ GetCaseFolderInfo

SpecCall == CallInit /\ [][CallNext]_vars

(***************************************************************************)
(* DatabaseManager (src/api/database.py)                                   *)
(*   db = [DATABASE_URL, CASES_DATA, POSTGRES_AVAILABLE, db_mode,          *)
(*         connection, table]                                              *)
(* A Python value is [type, items]; only a list has items.                 *)
(***************************************************************************)
PyList(items) == [type |-> "list", items |-> items]
PyDict == [type |-> "dict", items |-> <<>>]
PyInt == [type |-> "int", items |-> <<>>]
PyNone == [type |-> "NoneType", items |-> <<>>]

\* a row of the table `cases`, also a case dict of the same keys; dates are
\* ISO strings of one length, ordered as LexLess orders them
Row(case_id, client, case_type, progress, created_date, updated_date) ==
    [case_id |-> case_id, client |-> client, case_type |-> case_type,
     progress |-> progress, created_date |-> created_date,
     updated_date |-> updated_date]
Day1 == <<1>>
Day2 == <<2>>
CURRENT_DATE == <<3>>

\* an environment variable: not set, or set to a text
NotSet == [set |-> FALSE, text |-> ""]
SetTo(text) == [set |-> TRUE, text |-> text]
environ_get(v, default) == IF v.set THEN v.text ELSE default

\* the texts CASES_DATA is set to
EnvCase == Row("113003", "Z", "civil", "filed", Day1, Day2)
EnvCasesText == "[{\"case_id\": \"113003\", ...}]"
JsonTexts == {"", "not json", "[]", EnvCasesText, "{}", "42", "null"}

\* json.loads(text): [ok, value]; ok FALSE is json.JSONDecodeError
json_loads(text) ==
    CASE text = "[]"         -> [ok |-> TRUE, value |-> PyList(<<>>)]
      [] text = EnvCasesText -> [ok |-> TRUE, value |-> PyList(<<EnvCase>>)]
      [] text = "{}"         -> [ok |-> TRUE, value |-> PyDict]
      [] text = "42"         -> [ok |-> TRUE, value |-> PyInt]
      [] text = "null"       -> [ok |-> TRUE, value |-> PyNone]
      [] OTHER               -> [ok |-> FALSE, value |-> PyNone]

\* len(value) raises TypeError for a value that has no length
has_len(value) == value.type \in {"list", "dict", "str"}

\* DatabaseManager._detect_db_mode
_detect_db_mode(DATABASE_URL, POSTGRES_AVAILABLE, CASES_DATA) ==
    IF DATABASE_URL /\ POSTGRES_AVAILABLE THEN "postgres"
    ELSE IF environ_get(CASES_DATA, "") # "" THEN "env_vars"
    ELSE "hardcoded"

\* mutant: a failed connection leaves the mode at 'postgres'
DatabaseManager_NoDowngrade(DATABASE_URL, POSTGRES_AVAILABLE, CASES_DATA, connect, table) ==
    LET mode == _detect_db_mode(DATABASE_URL, POSTGRES_AVAILABLE, CASES_DATA)
    IN  [DATABASE_URL |-> DATABASE_URL, CASES_DATA |-> CASES_DATA,
         POSTGRES_AVAILABLE |-> POSTGRES_AVAILABLE,
         db_mode |-> mode,
         connection |-> mode = "postgres" /\ connect = "ok",
         table |-> table]

\* DatabaseManager.__init__ with _init_postgres; connect: what
\* psycopg2.connect does ("ok", "raise"), "na" when it is not called
DatabaseManager(DATABASE_URL, POSTGRES_AVAILABLE, CASES_DATA, connect, table) ==
    LET mode == _detect_db_mode(DATABASE_URL, POSTGRES_AVAILABLE, CASES_DATA)
    IN  [DATABASE_URL |-> DATABASE_URL, CASES_DATA |-> CASES_DATA,
         POSTGRES_AVAILABLE |-> POSTGRES_AVAILABLE,
         db_mode |-> IF mode = "postgres" /\ connect # "ok" THEN "env_vars" ELSE mode,
         connection |-> mode = "postgres" /\ connect = "ok",
         table |-> table]

\* DatabaseManager._get_cases_hardcoded
_get_cases_hardcoded ==
    PyList(<<Row("113001", "Zhang", "civil", "filed", Day1, Day2),
             Row("113002", "Li", "criminal", "investigation", Day1, Day1)>>)

\* the rows of a table in the order of ORDER BY updated_date DESC
RECURSIVE OrderByUpdatedDesc(_)
OrderByUpdatedDesc(table) ==
    IF table = {} THEN <<>>
    ELSE LET first == CHOOSE r \in table :
                        \A q \in table : ~LexLess(r.updated_date, q.updated_date)
         IN  <<first>> \o OrderByUpdatedDesc(table \ {first})

\* DatabaseManager._get_cases_postgres; out: what the query does
_get_cases_postgres(d, out) ==
    try_except(~d.connection \/ out = "raise",
               PyList(OrderByUpdatedDesc(d.table)), PyList(<<>>))

\* DatabaseManager._get_cases_env: only json.JSONDecodeError is handled;
\* the TypeError of len(cases) leaves the method
_get_cases_env(d) ==
    LET loaded == json_loads(environ_get(d.CASES_DATA, "[]"))
    IN  IF ~loaded.ok THEN Returned(_get_cases_hardcoded)
        ELSE IF ~has_len(loaded.value) THEN Escaped(PyNone)
        ELSE Returned(loaded.value)

\* DatabaseManager.get_all_cases
get_all_cases_queries(d) == d.db_mode = "postgres"
get_all_cases(d, out) ==
    IF d.db_mode = "postgres" THEN _get_cases_postgres(d, out)
    ELSE IF d.db_mode = "env_vars" THEN _get_cases_env(d)
    ELSE Returned(_get_cases_hardcoded)

\* DatabaseManager.save_case with _save_case_postgres; out: what the
\* statement and its commit do ("ok", "raise"), "na" when none is executed.
\* The INSERT names no updated_date (the column default is CURRENT_DATE) and
\* its ON CONFLICT (case_id) DO UPDATE sets updated_date = CURRENT_DATE.
save_case_executes(d) == d.db_mode = "postgres" /\ d.connection
_save_case_postgres(table, case_data) ==
    IF \E r \in table : r.case_id = case_data.case_id
    THEN LET old == CHOOSE r \in table : r.case_id = case_data.case_id
         IN  (table \ {old})
             \cup {Row(case_data.case_id, case_data.client, case_data.case_type,
                       case_data.progress, old.created_date, CURRENT_DATE)}
    ELSE table \cup {[case_data EXCEPT !.updated_date = CURRENT_DATE]}
save_case(d, case_data, out) ==
    [end   |-> IF save_case_executes(d)
               THEN try_except(out = "raise", TRUE, FALSE)
               ELSE Returned(FALSE),
     table |-> IF save_case_executes(d) /\ out = "ok"
               THEN _save_case_postgres(d.table, case_data)
               ELSE d.table]

(***************************************************************************)
(* SpecDatabase: a DatabaseManager constructed in any environment, over    *)
(* any table, asked for the cases and given cases to save                  *)
(***************************************************************************)
TableRowA == Row("113001", "X", "civil", "filed", Day1, Day1)
TableRowB == Row("113002", "Y", "criminal", "hearing", Day1, Day2)
DbTables == {{}, {TableRowA}, {TableRowA, TableRowB}}
CasesDataValues == {NotSet} \cup {SetTo(t) : t \in JsonTexts}

\* what every specification without a controller leaves as it is
NoController ==
    /\ cases = <<>>
    /\ disk = {}
    /\ excel = {}
    /\ progress_files = {}
    /\ fm = BasicFolderManager
    /\ saved = "none"
    /\ rec = NewCaseData
    /\ removed = "none"

\* the cases save_case is given
SaveInputs ==
    {Row("113001", "W", "criminal", "hearing", Day2, Day2),
     Row("113003", "Z", "civil", "filed", Day2, Day2)}

DatabaseInit ==
    /\ NoController
    /\ \E DATABASE_URL \in BOOLEAN, POSTGRES_AVAILABLE \in BOOLEAN :
       \E CASES_DATA \in CasesDataValues, table \in DbTables :
       \E connect \in OutSet(DATABASE_URL /\ POSTGRES_AVAILABLE, {"ok", "raise"}) :
           /\ db = DatabaseManager(DATABASE_URL, POSTGRES_AVAILABLE, CASES_DATA,
                                   connect, table)
           /\ call = Call("__init__", <<>>, TRUE, <<>>,
                          <<Step("psycopg2.connect", connect)>>)

GetAllCases ==
    \E out \in OutSet(get_all_cases_queries(db), {"ok", "raise"}) :
        /\ LET r == get_all_cases(db, out)
           IN call' = Call("get_all_cases", <<>>, r.value, EscapeMsg(r),
                           <<Step("query", out)>>)
        /\ UNCHANGED <<cases, disk, excel, progress_files, fm, saved, rec, removed, db>>

SaveCase ==
    \E case_data \in SaveInputs :
    \E out \in OutSet(save_case_executes(db), {"ok", "raise"}) :
        LET r == save_case(db, case_data, out)
        IN  /\ db' = [db EXCEPT !.table = r.table]
            /\ call' = Call("save_case", case_data, r.end.value, EscapeMsg(r.end),
                            <<Step("execute", out)>>)
            /\ UNCHANGED <<cases, disk, excel, progress_files, fm, saved, rec, removed>>

DatabaseNext ==
    \/ GetAllCases
    \/ SaveCase

SpecDatabase == DatabaseInit /\ [][DatabaseNext]_vars

(***************************************************************************)
(* DatabaseInitializer (src/init_database.py)                              *)
(*   db = [db_mode, table, written]: the rows of the table `cases`, keyed  *)
(*   by case_id, and the number of rows the statements of the last         *)
(*   insert_cases wrote that its commit made durable                       *)
(***************************************************************************)
\* a key the case dict does not have
Absent == "<absent>"

\* a date string of a case dict
DateText(format, day) == [format |-> format, day |-> day]

\* the date loop of _process_case_data: strptime by the length of the string
parse_date(date_value) ==
    IF date_value.format \in {"%Y-%m-%d", "%Y-%m-%d %H:%M:%S"}
    THEN date_value.day ELSE NoDate

\* str(case_data.get(key, ''))
str_get(value) == IF value = Absent THEN "" ELSE value

\* DatabaseInitializer._process_case_data
_process_case_data(case_data) ==
    Row(str_get(case_data.case_id), str_get(case_data.client),
        str_get(case_data.case_type), str_get(case_data.progress),
        parse_date(case_data.created_date), parse_date(case_data.updated_date))

\* all([case_id, client, case_type, progress])
has_required(processed_case) ==
    /\ processed_case.case_id # ""
    /\ processed_case.client # ""
    /\ processed_case.case_type # ""
    /\ processed_case.progress # ""

\* the row of the primary key case_id
HasRow(table, case_id) == \E r \in table : r.case_id = case_id
RowOf(table, case_id) == CHOOSE r \in table : r.case_id = case_id

\* INSERT ... ON CONFLICT (case_id) DO UPDATE SET ...: created_date is not in
\* the SET list, updated_date is set to CURRENT_DATE
upsert(table, p) ==
    IF HasRow(table, p.case_id)
    THEN LET old == RowOf(table, p.case_id)
         IN  (table \ {old})
             \cup {Row(p.case_id, p.client, p.case_type, p.progress,
                       old.created_date, CURRENT_DATE)}
    ELSE table \cup {p}

\* INSERT ... ON CONFLICT (case_id) DO NOTHING
insert_or_nothing(table, p) ==
    IF HasRow(table, p.case_id) THEN table ELSE table \cup {p}

\* the row count of the statement
rowcount(mode, table, p) ==
    IF mode = "skip" /\ HasRow(table, p.case_id) THEN 0 ELSE 1

\* the mode has a branch that executes a statement
executes(mode) == mode \in {"replace", "skip"}

\* one pass of the loop of insert_cases over the transaction so far
\*   s = [table, aborted, written, success_count]
\*   out: what cursor.execute does: "ok"; "raise" raises before the
\*        statement reaches the server; "abort" raises from the server, which
\*        aborts the transaction: every later statement raises and the commit
\*        rolls back
insert_one(s, case_data, mode, out) ==
    LET p == _process_case_data(case_data)
        failed == executes(mode) /\ (s.aborted \/ out # "ok")
    IN  IF ~has_required(p) THEN s
        ELSE IF failed THEN [s EXCEPT !.aborted = @ \/ out = "abort"]
        ELSE [s EXCEPT !.table = IF mode = "replace" THEN upsert(@, p)
                                 ELSE IF mode = "skip" THEN insert_or_nothing(@, p)
                                 ELSE @,
                       !.written = IF executes(mode) THEN @ + rowcount(mode, s.table, p)
                                   ELSE @,
                       !.success_count = @ + 1]

\* the pass executes a statement for this case
insert_cases_executes(case_data, mode) ==
    has_required(_process_case_data(case_data)) /\ executes(mode)

RECURSIVE insert_loop(_, _, _, _)
insert_loop(s, cases_data, mode, outs) ==
    IF cases_data = <<>> THEN s
    ELSE insert_loop(insert_one(s, Head(cases_data), mode, Head(outs)),
                     Tail(cases_data), mode, Tail(outs))

\* DatabaseInitializer.insert_cases(cases_data, mode)
\*   e = [execute, commit]: the outcome of each execute and of the commit
insert_cases(table, cases_data, mode, e) ==
    LET s == insert_loop([table |-> table, aborted |-> FALSE, written |-> 0,
                          success_count |-> 0], cases_data, mode, e.execute)
        durable == e.commit = "ok" /\ ~s.aborted
    IN  [end     |-> IF e.commit = "raise" THEN Escaped(s.success_count)
                     ELSE Returned(s.success_count),
         table   |-> IF durable THEN s.table ELSE table,
         written |-> IF durable THEN s.written ELSE 0,
         trace   |-> [i \in DOMAIN cases_data |-> Step("execute", e.execute[i])]
                     \o <<Step("commit", e.commit)>>]

(***************************************************************************)
(* SpecInsert: one insert_cases call of a DatabaseInitializer over any     *)
(* table                                                                   *)
(***************************************************************************)
\* the longest list of cases a call is given
MaxBatch == 2

InputCases ==
    {Row(case_id, client, case_type, "filed",
         DateText("%Y-%m-%d", Day2), DateText("%Y-%m-%d", Day2)) :
        case_id \in {"113001", "113003"},
        client \in {"W", Absent},
        case_type \in {"civil", "criminal"}}
Batches == UNION {[1..n -> InputCases] : n \in 0..MaxBatch}
Modes == {"replace", "skip", "update"}

InsertInit ==
    /\ NoController
    /\ call = Call("__init__", <<>>, TRUE, <<>>, <<>>)
    /\ \E table \in DbTables :
           db = [db_mode |-> "initializer", table |-> table, written |-> 0]

InsertCases ==
    \E cases_data \in Batches, mode \in Modes :
    \E execute \in [DOMAIN cases_data -> {"ok", "raise", "abort", "na"}] :
    \E commit \in {"ok", "raise"} :
        LET r == insert_cases(db.table, cases_data, mode,
                              [execute |-> execute, commit |-> commit])
        IN  /\ \A i \in DOMAIN cases_data :
                    execute[i] \in OutSet(insert_cases_executes(cases_data[i], mode),
                                         {"ok", "raise", "abort"})
            /\ db' = [db EXCEPT !.table = r.table, !.written = r.written]
            /\ call' = Call("insert_cases", [cases_data |-> cases_data, mode |-> mode],
                            r.end.value, EscapeMsg(r.end), r.trace)
            /\ UNCHANGED <<cases, disk, excel, progress_files, fm, saved, rec, removed>>

InsertNext ==
    \/ FirstCall /\ InsertCases

SpecInsert == InsertInit /\ [][InsertNext]_vars

(***************************************************************************)
(* Claims                                                                  *)
(***************************************************************************)
IsCall(op) == call.op = op
UciOrder ==
    <<"validate_case_id_update", "update_case_id_with_files",
      "update_excel_content_for_case_id_change",
      "update_progress_files_for_case_id_change">>
IsPrefix(s, t) == Len(s) <= Len(t) /\ \A i \in DOMAIN s : s[i] = t[i]
InMessage(msg, token) == \E i \in DOMAIN msg : msg[i] = token
StepIs(trace, name, out) == Invoked(trace, name) /\ OutcomeOf(trace, name) = out

\* C1 (SpecRecord): whenever progress_stages is non-empty, progress is one of
\* its keys.
C1_ProgressIsStageKey ==
    rec.progress_stages # <<>> => rec.progress \in Keys(rec.progress_stages)

\* C2 (SpecRecord): the keys of progress_notes and the keys of progress_times
\* are each a subset of the keys of progress_stages.
C2_NotesTimesWithinStages ==
    /\ DOMAIN rec.progress_notes \subseteq Keys(rec.progress_stages)
    /\ DOMAIN rec.progress_times \subseteq Keys(rec.progress_stages)

\* a stage was removed and other stages still carry a note and a time
C2_Witness ==
    /\ removed = "True"
    /\ rec.progress_notes # EmptyMap
    /\ rec.progress_times # EmptyMap
    /\ Len(rec.progress_stages) >= 2

\* C3 (Spec): once delete_case has resolved the record, the metadata delete
\* is attempted and the returned bool is its outcome alone, whatever the
\* folder deletion returned.
C3_DeleteResultIsMetadataOutcome ==
    (IsCall("delete_case") /\ StepIs(call.trace, "resolve", "found"))
        => /\ Invoked(call.trace, "data_manager.delete_case")
           /\ call.ret = StepIs(call.trace, "data_manager.delete_case", "ok")

\* the folder deletion failed, the folder is still there, delete_case returned true
C3_Witness ==
    /\ IsCall("delete_case")
    /\ StepIs(call.trace, "delete_case_folder", "False")
    /\ call.ret
    /\ disk # {}

\* C4 (Spec): the bool add_case returns is the outcome of the metadata add,
\* true also when folder creation returned false, raised or is missing.
C4_AddResultIsMetadataOutcome ==
    IsCall("add_case")
        => call.ret = StepIs(call.trace, "data_manager.add_case", "ok")

\* the record was stored, no folder was created, add_case returned true
C4_Witness ==
    /\ IsCall("add_case")
    /\ call.ret
    /\ Invoked(call.trace, "create_case_folder_structure")
    /\ OutcomeOf(call.trace, "create_case_folder_structure") \in {"fail", "raise", "AttributeError"}
    /\ FolderPath(call.arg) \notin disk

\* C5 (SpecRename): the bool update_case_id returns reflects only step 2:
\* true whenever validation passed and step 2 succeeded, whatever steps 3
\* and 4 do; false whenever step 2 failed.
C5_RenameResultIsStep2 ==
    IsCall("update_case_id")
        => /\ StepIs(call.trace, "update_case_id_with_files", "ok") => call.ret
           /\ (/\ Invoked(call.trace, "update_case_id_with_files")
               /\ OutcomeOf(call.trace, "update_case_id_with_files") # "ok") => ~call.ret

\* C6 (SpecRename): when new_case_id is already used by a record of the same
\* case_type, update_case_id fails and the metadata records, the spreadsheet
\* export and the progress artifacts are as before the call.
C6_CollisionTouchesNothing ==
    [][(/\ call'.op = "update_case_id"
        /\ Collides(cases, call'.arg.case_type, call'.arg.new_case_id))
          => /\ ~call'.ret
             /\ cases' = cases
             /\ excel' = excel
             /\ progress_files' = progress_files
             /\ disk' = disk]_vars

\* a rename onto the id of another record of the same type was refused, with
\* spreadsheet rows and progress artifacts of the old id in place
C6_Witness ==
    /\ IsCall("update_case_id")
    /\ call.arg.old_case_id # call.arg.new_case_id
    /\ HasKey(cases, call.arg.old_case_id, call.arg.case_type)
    /\ HasKey(cases, call.arg.new_case_id, call.arg.case_type)
    /\ StepIs(call.trace, "validate_case_id_update", "fail")
    /\ ~call.ret
    /\ call.arg.old_case_id \in excel
    /\ call.arg.old_case_id \in progress_files

\* C7 (SpecRename): the sub-steps run in the order validation, metadata
\* identifier change, spreadsheet rewrite, progress-artifact rename; if the
\* identifier change fails the saga fails and steps 3 and 4 are not invoked.
C7_RenameOrder ==
    IsCall("update_case_id")
        => /\ IsPrefix(StepNames(call.trace), UciOrder)
           /\ (/\ Invoked(call.trace, "update_case_id_with_files")
               /\ OutcomeOf(call.trace, "update_case_id_with_files") # "ok")
                 => /\ ~call.ret
                    /\ ~Invoked(call.trace, "update_excel_content_for_case_id_change")
                    /\ ~Invoked(call.trace, "update_progress_files_for_case_id_change")

\* validation passed, the identifier change failed, the saga stopped there
C7_Witness ==
    /\ IsCall("update_case_id")
    /\ StepIs(call.trace, "validate_case_id_update", "ok")
    /\ StepIs(call.trace, "update_case_id_with_files", "fail")
    /\ Len(call.trace) = 2
    /\ ~call.ret

\* C8 (SpecRename): a reported failure of step 3 neither reverts step 2 nor
\* keeps step 4 from being attempted; a reported failure of step 4 does not
\* revert step 2.
C8_BestEffortSteps ==
    [][call'.op = "update_case_id"
        => LET renamed == dm_update_case_id(cases, call'.arg.old_case_id,
                                            call'.arg.case_type, call'.arg.new_case_id)
           IN  /\ StepIs(call'.trace, "update_excel_content_for_case_id_change", "fail")
                    => /\ Invoked(call'.trace, "update_progress_files_for_case_id_change")
                       /\ cases' = renamed
               /\ StepIs(call'.trace, "update_progress_files_for_case_id_change", "fail")
                    => cases' = renamed]_vars

\* steps 3 and 4 both reported failure and the record carries the new id
C8_Witness ==
    /\ IsCall("update_case_id")
    /\ StepIs(call.trace, "update_excel_content_for_case_id_change", "fail")
    /\ StepIs(call.trace, "update_progress_files_for_case_id_change", "fail")
    /\ call.arg.old_case_id # call.arg.new_case_id
    /\ HasKey(cases, call.arg.new_case_id, call.arg.case_type)
    /\ ~HasKey(cases, call.arg.old_case_id, call.arg.case_type)

\* the message parts the source has for a sub-step
PartsAbout(step) ==
    IF step = "update_excel_content_for_case_id_change" THEN {ExcelUpdated}
    ELSE IF step = "update_progress_files_for_case_id_change" THEN {ProgressUpdated}
    ELSE {DataMessage("ok"), DataMessage("fail")}
Mentions(msg, step) == \E i \in DOMAIN msg : msg[i] \in PartsAbout(step)

C10_RenamePostcondition ==
    [][(call'.op = "update_case_id" /\ call'.ret)
        => LET old  == call'.arg.old_case_id
               type == call'.arg.case_type
               new  == call'.arg.new_case_id
               orig == get_case_by_id_and_type(cases, old, type)
           IN  /\ orig # None
               /\ get_case_by_id_and_type(cases', old, type) = None
               /\ get_case_by_id_and_type(cases', new, type) = [orig EXCEPT !.case_id = new]
               /\ Len(cases') = Len(cases)
               /\ \A i \in DOMAIN cases :
                    ~(cases[i].case_id = old /\ cases[i].case_type = type)
                        => cases'[i] = cases[i]]_vars

\* a record was renamed next to another record that kept its old id
C10_Witness ==
    /\ IsCall("update_case_id")
    /\ call.ret
    /\ Len(cases) = 2
    /\ get_case_by_id_and_type(cases, call.arg.new_case_id, call.arg.case_type) # None
    /\ get_case_by_id(cases, call.arg.old_case_id) # None

\* the last call removed the stage that was the current progress
RemovedCurrent ==
    /\ removed' = "True"
    /\ rec.progress \in Keys(rec.progress_stages)
    /\ rec.progress \notin Keys(rec'.progress_stages)

\* C12 (SpecRecord): when remove_progress_stage removes the stage that is the
\* current progress and other stages remain, the new progress is a remaining
\* stage and no remaining stage has a date string that is greater in string
\* order.
C12_ReassignsToLatest ==
    [][(RemovedCurrent /\ rec'.progress_stages # <<>>)
        => /\ rec'.progress \in Keys(rec'.progress_stages)
           /\ \A k \in Keys(rec'.progress_stages) :
                ~LexLess(Get(rec'.progress_stages, rec'.progress),
                         Get(rec'.progress_stages, k))]_vars

\* three stages were added, the default one among them, and the default one
\* (the current progress) was removed: the progress is now the remaining
\* stage dated "2", the other one is dated "10"
C12_Witness ==
    /\ removed = "True"
    /\ rec.updated_date = 4
    /\ Len(rec.progress_stages) = 2
    /\ rec.progress_date = NoDate
    /\ rec.progress # DefaultProgress
    /\ Get(rec.progress_stages, rec.progress) = <<2>>
    /\ \E k \in Keys(rec.progress_stages) : Get(rec.progress_stages, k) = <<1, 0>>

\* C13 (SpecRecord): removing the only stage of a record with
\* remove_progress_stage leaves progress equal to the empty string.
C13_RemoveOnlyStageEmptiesProgress ==
    [][(Len(rec.progress_stages) = 1 /\ removed' = "True")
        => rec'.progress = ""]_vars

\* C15 (SpecRecord): a call that changes progress, progress_date or one of
\* the three stage maps advances updated_date.
C15_MutationRefreshesUpdatedDate ==
    [][(\/ rec'.progress # rec.progress
        \/ rec'.progress_date # rec.progress_date
        \/ rec'.progress_stages # rec.progress_stages
        \/ rec'.progress_notes # rec.progress_notes
        \/ rec'.progress_times # rec.progress_times)
        => rec'.updated_date > rec.updated_date]_vars

\* the last call was one of the three progress-stage sagas
IsSaga ==
    call.op \in {"add_case_progress_stage", "update_case_progress_stage",
                 "remove_case_progress_stage"}
SagaMutated == Len(call.trace) >= 1 /\ call.trace[1].out = "ok"

\* C11 (SpecProgress): each progress-stage saga calls save_cases right after
\* the progress manager applied the mutation, and returns true exactly when
\* that save returned true (then the saved record is the in-memory record); a
\* save that fails or raises makes the saga return false.
C11_SagaSavesThenReports ==
    IsSaga
        => /\ SagaMutated <=> Invoked(call.trace, "save_cases")
           /\ Invoked(call.trace, "save_cases")
                => Len(call.trace) = 2 /\ call.trace[2].step = "save_cases"
           /\ call.ret = StepIs(call.trace, "save_cases", "ok")
           /\ call.ret => saved = rec

\* a stage was changed in memory, the save failed, the saga returned false
\* and the saved record is not the in-memory one
C11_Witness ==
    /\ IsSaga
    /\ SagaMutated
    /\ StepIs(call.trace, "save_cases", "fail")
    /\ ~call.ret
    /\ saved # rec

\* C14 (SpecProgress): after add_case_progress_stage(case_id, s, d) returned
\* true the record has progress = s, progress_date = d and
\* progress_stages[s] = d.
C14_AddedStageIsCurrent ==
    (IsCall("add_case_progress_stage") /\ call.ret)
        => /\ rec.progress = call.arg.stage_name
           /\ rec.progress_date = call.arg.stage_date
           /\ call.arg.stage_name \in Keys(rec.progress_stages)
           /\ Get(rec.progress_stages, call.arg.stage_name) = call.arg.stage_date

\* the record a delete_case call is about, and the folder delete_case_folder
\* works on (it looks the record up by case_id alone)
DeletedCase(cs, arg) == delete_case_resolve(cs, arg.case_id, arg.case_type)
DcfPath(cs, arg) == FolderPath(get_case_by_id(cs, arg.case_id))

\* C16 (Spec): a delete_case that asks for folder deletion on a case whose
\* folder is not on disk records the folder sub-result as success, with
\* every folder manager.
C16_AbsentFolderDeleteSucceeds ==
    [][(/\ call'.op = "delete_case"
        /\ Invoked(call'.trace, "delete_case_folder")
        /\ FolderPath(DeletedCase(cases, call'.arg)) \notin disk)
          => StepIs(call'.trace, "delete_case_folder", "True")]_vars

\* C17 (Spec): when delete_case_folder returns true the folder path it
\* resolved is not on disk; when the deletion attempts reported success and
\* the folder is still on disk, it returns false.
C17_TrueMeansFolderGone ==
    [][(call'.op = "delete_case" /\ Invoked(call'.trace, "delete_case_folder"))
        => /\ StepIs(call'.trace, "delete_case_folder", "True")
                => DcfPath(cases, call'.arg) \notin disk'
           /\ (/\ StepIs(call'.trace, "deletion_success", "True")
               /\ DcfPath(cases, call'.arg) \in disk')
                => StepIs(call'.trace, "delete_case_folder", "False")]_vars

\* a deletion primitive reported success, the folder is still there, the
\* folder sub-result is false (the record itself was not deleted)
C17_Witness ==
    /\ IsCall("delete_case")
    /\ StepIs(call.trace, "deletion_success", "True")
    /\ StepIs(call.trace, "delete_case_folder", "False")
    /\ StepIs(call.trace, "data_manager.delete_case", "fail")
    /\ get_case_by_id(cases, call.arg.case_id) # None
    /\ DcfPath(cases, call.arg) \in disk

\* the three outcomes of a delete_case call that asks for folder deletion
DeleteOutcome(c) ==
    IF StepIs(c.trace, "data_manager.delete_case", "ok")
    THEN IF StepIs(c.trace, "delete_case_folder", "False")
         THEN "metadata deleted, folder deletion failed"
         ELSE "fully deleted"
    ELSE "failed"

\* C18 (Spec): what delete_case returns tells fully deleted, metadata
\* deleted with folder deletion failed, and failed apart: two consecutive
\* delete_case calls with folder deletion requested and different outcomes
\* return different results.
C18_OutcomesDistinguishable ==
    [][(/\ call.op = "delete_case" /\ call.arg.delete_folder
        /\ call'.op = "delete_case" /\ call'.arg.delete_folder
        /\ DeleteOutcome(call) # DeleteOutcome(call'))
          => <<call.ret, call.msg>> # <<call'.ret, call'.msg>>]_vars

\* records of more than one case type carry this case id
Ambiguous(cs, case_id) ==
    \E i, j \in DOMAIN cs :
        /\ cs[i].case_id = case_id
        /\ cs[j].case_id = case_id
        /\ cs[i].case_type # cs[j].case_type

\* no record has this case id and, when one is given, this case type
NoMatch(cs, case_id, case_type) ==
    ~\E i \in DOMAIN cs :
        /\ cs[i].case_id = case_id
        /\ case_type # NoType => cs[i].case_type = case_type

\* C19 (Spec): delete_case without a case_type fails and deletes nothing
\* when no record has the case_id or when records of more than one case
\* type share it.
C19_NoTypeFailsWhenAbsentOrAmbiguous ==
    [][(/\ call'.op = "delete_case"
        /\ call'.arg.case_type = NoType
        /\ \/ NoMatch(cases, call'.arg.case_id, NoType)
           \/ Ambiguous(cases, call'.arg.case_id))
          => /\ ~call'.ret
             /\ cases' = cases
             /\ disk' = disk]_vars

\* C20 (Spec): a delete_case whose case_id, or case_id and case_type, match
\* no record returns false and leaves the metadata store and the folders on
\* disk as they were.
C20_NotFoundChangesNothing ==
    [][(/\ call'.op = "delete_case"
        /\ NoMatch(cases, call'.arg.case_id, call'.arg.case_type))
          => /\ ~call'.ret
             /\ cases' = cases
             /\ disk' = disk]_vars

\* folder deletion was asked for a case id that exists only under another
\* case type: refused, the record and its folder are still there
C20_Witness ==
    /\ IsCall("delete_case")
    /\ call.arg.delete_folder
    /\ call.arg.case_type # NoType
    /\ StepIs(call.trace, "resolve", "not_found")
    /\ ~call.ret
    /\ get_case_by_id(cases, call.arg.case_id) # None
    /\ DcfPath(cases, call.arg) \in disk

\* C21 (Spec): after add_case(r) returned true for a record whose
\* (case_id, case_type) was not in the store, get_case_by_id_and_type(r.case_id,
\* r.case_type) returns a record equal to r, also next to a record with the
\* same case_id and another case_type.
C21_AddedCaseIsFound ==
    [][(/\ call'.op = "add_case"
        /\ call'.ret
        /\ ~HasKey(cases, call'.arg.case_id, call'.arg.case_type))
          => get_case_by_id_and_type(cases', call'.arg.case_id, call'.arg.case_type)
                = call'.arg]_vars

\* a record was added after a record with the same case_id and another
\* case_type, and the lookup by id alone finds that earlier record
C21_Witness ==
    /\ IsCall("add_case")
    /\ call.ret
    /\ Len(cases) = 2
    /\ cases[2] = call.arg
    /\ cases[1].case_id = call.arg.case_id
    /\ cases[1].case_type # call.arg.case_type
    /\ get_case_by_id(cases, call.arg.case_id) # call.arg

\* C22 (SpecCall): with every folder manager, get_case_folder_path returns
\* a path only if that folder exists on disk, and creates nothing.
C22_PathOnlyIfExists ==
    [][call'.op = "get_case_folder_path"
        => /\ disk' = disk
           /\ call'.ret # NoPath => call'.ret \in disk]_vars

\* C23 (SpecCall): the path get_case_folder_path returns for a record is
\* table(case_type) / client under the data folder, with table(case_type)
\* the configured folder name of a known case type and the case type
\* itself otherwise; the case id is no part of it.
C23_PathIsTypeFolderAndClient ==
    (IsCall("get_case_folder_path") /\ call.ret # NoPath)
        => LET c == get_case_by_id(cases, call.arg.case_id)
           IN  call.ret = <<IF c.case_type \in DOMAIN CASE_TYPE_FOLDERS
                            THEN CASE_TYPE_FOLDERS[c.case_type]
                            ELSE c.case_type,
                            c.client>>

\* the path of a record of a case type that is not configured was returned
C23_Witness ==
    /\ IsCall("get_case_folder_path")
    /\ get_case_by_id(cases, call.arg.case_id) = CaseU
    /\ call.ret = <<"tax", "Y">>

MutatingOps ==
    {"add_case", "update_case", "delete_case", "update_case_id",
     "add_case_progress_stage", "update_case_progress_stage",
     "remove_case_progress_stage", "delete_case_folder",
     "import_from_excel", "export_to_excel"}
\* the call ended with a return value, not with an exception
ReturnedNormally == \A i \in DOMAIN call.msg : call.msg[i] # Raised

\* C24 (SpecCall): every mutating controller operation returns a boolean
\* (with a message for update_case_id and import_from_excel), also when the
\* record is not found, the identifier is a duplicate, validation fails or
\* a collaborator raises; no exception leaves the method.
C24_NoExceptionEscapes ==
    call.op \in MutatingOps
        => /\ ReturnedNormally
           /\ call.ret \in BOOLEAN

\* update_case on a stored record, the metadata store raised, the call
\* returned false
C24_Witness ==
    /\ IsCall("update_case")
    /\ get_case_by_id(cases, call.arg.case_id) # None
    /\ StepIs(call.trace, "data_manager.update_case", "raise")
    /\ ReturnedNormally
    /\ call.ret = FALSE

\* C25 (SpecCall): with the basic fallback folder manager, add_case,
\* delete_case, get_case_folder_path, get_case_stage_folder_path and
\* get_case_folder_info return normally, and add_case and delete_case still
\* call the metadata store and report its outcome.
C25_BasicManagerFallsBack ==
    fm = BasicFolderManager
        => /\ call.op \in {"add_case", "delete_case", "get_case_folder_path",
                           "get_case_stage_folder_path", "get_case_folder_info"}
                => ReturnedNormally
           /\ IsCall("get_case_folder_path")
                => call.ret = NoPath \/ call.ret \in CallFolders
           /\ IsCall("get_case_stage_folder_path") => call.ret = NoPath
           /\ IsCall("get_case_folder_info")
                => call.ret \in [exists : BOOLEAN, path : CallFolders \cup {NoPath},
                                 error : BOOLEAN]
           /\ IsCall("add_case")
                => /\ Invoked(call.trace, "data_manager.add_case")
                   /\ call.ret = StepIs(call.trace, "data_manager.add_case", "ok")
                   /\ call.ret => HasKey(cases, call.arg.case_id, call.arg.case_type)
           /\ (IsCall("delete_case") /\ StepIs(call.trace, "resolve", "found"))
                => /\ Invoked(call.trace, "data_manager.delete_case")
                   /\ call.ret = StepIs(call.trace, "data_manager.delete_case", "ok")

\* the basic manager has no create_case_folder_structure and no creator:
\* add_case stored the record and returned true
C25_Witness ==
    /\ fm = BasicFolderManager
    /\ IsCall("add_case")
    /\ StepIs(call.trace, "create_case_folder_structure", "AttributeError")
    /\ ~Invoked(call.trace, "creator.create_case_folder_structure")
    /\ call.ret = TRUE
    /\ HasKey(cases, call.arg.case_id, call.arg.case_type)

\* add_case stored the record and the folder manager created its folder
AddedWithFolder ==
    /\ IsCall("add_case")
    /\ call.ret
    /\ StepIs(call.trace, "data_manager.add_case", "ok")
    /\ \/ StepIs(call.trace, "create_case_folder_structure", "ok")
       \/ StepIs(call.trace, "creator.create_case_folder_structure", "ok")

\* C26 (Spec): with a folder manager that can create and delete and no
\* collaborator failing, after add_case(r) returned true the folder of r
\* exists, and after a following delete_case(r.case_id, delete_folder=True)
\* returned true r is not in the store and its folder is not on disk.
C26_AddThenDeleteLeavesNothing ==
    [][(/\ fm.create /\ fm.delete
        /\ AddedWithFolder
        /\ call'.op = "delete_case"
        /\ call'.arg = [case_id |-> call.arg.case_id, case_type |-> NoType,
                        delete_folder |-> TRUE]
        /\ call'.ret
        /\ StepIs(call'.trace, "delete_case_folder", "True")
        /\ StepIs(call'.trace, "data_manager.delete_case", "ok"))
        => /\ FolderPath(call.arg) \in disk
           /\ ~HasKey(cases', call.arg.case_id, call.arg.case_type)
           /\ FolderPath(call.arg) \notin disk']_vars

\* how an add_case call that stored the record ended for the folder
AddOutcome(c) ==
    IF \/ StepIs(c.trace, "create_case_folder_structure", "ok")
       \/ StepIs(c.trace, "creator.create_case_folder_structure", "ok")
    THEN "stored, folder created"
    ELSE "stored, folder creation failed"

\* C27 (Spec): what add_case returns tells a fully successful add apart
\* from one that stored the record and failed to create the folder: two
\* consecutive add_case calls that both stored their record, one with the
\* folder created and one without, return different results.
C27_FolderFailureReported ==
    [][(/\ call.op = "add_case" /\ StepIs(call.trace, "data_manager.add_case", "ok")
        /\ call'.op = "add_case" /\ StepIs(call'.trace, "data_manager.add_case", "ok")
        /\ AddOutcome(call) # AddOutcome(call'))
          => <<call.ret, call.msg>> # <<call'.ret, call'.msg>>]_vars

\* C28 (SpecDatabase): get_all_cases never raises and returns a list in
\* every database mode; when CASES_DATA does not decode it returns the
\* built-in data set.
C28_LoadingFailsSoft ==
    IsCall("get_all_cases")
        => /\ ReturnedNormally
           /\ call.ret.type = "list"
           /\ (db.db_mode = "env_vars"
                 /\ ~json_loads(environ_get(db.CASES_DATA, "[]")).ok)
                => call.ret = _get_cases_hardcoded

\* no statement and no commit of the call failed
CleanInsert(c) ==
    /\ c.op = "insert_cases"
    /\ \A i \in DOMAIN c.trace : c.trace[i].out \in {"ok", "na"}
\* the row carries the values of the case
SameValues(row, p) ==
    /\ row.client = p.client
    /\ row.case_type = p.case_type
    /\ row.progress = p.progress
\* no other case of the list has the case_id of case i
OnceInBatch(cases_data, i) ==
    \A j \in DOMAIN cases_data : cases_data[j].case_id = cases_data[i].case_id => j = i

\* C29 (SpecInsert): after an insert_cases call in which nothing failed, for
\* each case of the list that has its required fields: a case whose case_id
\* was not in the table has a row with its values, in every mode; a case
\* whose case_id was in the table has its row unchanged in mode 'skip' and
\* carrying the new values in modes 'replace' and 'update'.
C29_ModesHonoured ==
    [][CleanInsert(call')
        => \A i \in DOMAIN call'.arg.cases_data :
             LET p == _process_case_data(call'.arg.cases_data[i])
             IN  (has_required(p) /\ OnceInBatch(call'.arg.cases_data, i))
                 => IF ~HasRow(db.table, p.case_id)
                    THEN /\ HasRow(db'.table, p.case_id)
                         /\ SameValues(RowOf(db'.table, p.case_id), p)
                    ELSE IF call'.arg.mode = "skip"
                    THEN RowOf(db'.table, p.case_id) = RowOf(db.table, p.case_id)
                    ELSE /\ HasRow(db'.table, p.case_id)
                         /\ SameValues(RowOf(db'.table, p.case_id), p)]_vars

\* C30 (SpecInsert): the number insert_cases returns is the number of rows
\* the call wrote to the table.
C30_CountIsRowsWritten ==
    (IsCall("insert_cases") /\ ReturnedNormally) => call.ret = db.written

\* C31 (SpecRecord): a remove_progress_stage call that returns false leaves
\* every field of the record as it was.
C31_RejectedRemovalChangesNothing ==
    [][removed' = "False" => rec' = rec]_vars

\* C32 (Spec): delete_case with a case_type and folder deletion requested,
\* on a case id that records of several case types carry, deletes no folder
\* other than the one of the record of the requested case type.
C32_DeletesFolderOfRequestedType ==
    [][(/\ call'.op = "delete_case"
        /\ call'.arg.delete_folder
        /\ call'.arg.case_type # NoType
        /\ Ambiguous(cases, call'.arg.case_id)
        /\ get_case_by_id_and_type(cases, call'.arg.case_id, call'.arg.case_type) # None)
        => \A path \in disk \ disk' :
             path = FolderPath(get_case_by_id_and_type(cases, call'.arg.case_id,
                                                       call'.arg.case_type))]_vars

\* C33 (Spec): after delete_case on a record, every other record that is
\* still in the store and whose folder existed before the call still has
\* its folder.
C33_OtherFoldersStay ==
    [][call'.op = "delete_case"
        => \A i \in DOMAIN cases' :
             (/\ cases'[i] # delete_case_resolve(cases, call'.arg.case_id,
                                                 call'.arg.case_type)
              /\ FolderPath(cases'[i]) \in disk)
                => FolderPath(cases'[i]) \in disk']_vars

\* C34 (Spec): when delete_case returns false for a record it resolved, the
\* record is still in the store and its folder, if it existed, still exists.
C34_FailedDeleteCommitsNothing ==
    [][(/\ call'.op = "delete_case"
        /\ ~call'.ret
        /\ delete_case_resolve(cases, call'.arg.case_id, call'.arg.case_type) # None)
        => LET r == delete_case_resolve(cases, call'.arg.case_id, call'.arg.case_type)
           IN  /\ HasKey(cases', r.case_id, r.case_type)
               /\ FolderPath(r) \in disk => FolderPath(r) \in disk']_vars

\* progress, progress_date and the three stage maps of a record
StageFields(r) ==
    <<r.progress, r.progress_date, r.progress_stages, r.progress_notes,
      r.progress_times>>

\* C35 (SpecProgress): when a progress-stage saga returns false after its
\* save failed, the in-memory record has the progress, progress_date and
\* stage maps it had before the call, and agrees with the persisted record
\* whenever it did so before the call.
C35_FailedSaveNotVisible ==
    [][(/\ call'.op \in {"add_case_progress_stage", "update_case_progress_stage",
                         "remove_case_progress_stage"}
        /\ ~call'.ret
        /\ Invoked(call'.trace, "save_cases"))
        => /\ StageFields(rec') = StageFields(rec)
           /\ StageFields(rec) = StageFields(saved)
                => StageFields(rec') = StageFields(saved')]_vars

\* C36 (SpecRecord): whenever progress is a recorded stage, progress_date is
\* the date recorded for it.
C36_ProgressDateIsStageDate ==
    rec.progress \in Keys(rec.progress_stages)
        => rec.progress_date = Get(rec.progress_stages, rec.progress)

\* the dicts with the entries of m, in every insertion order
Reorderings(m) ==
    {q \in [DOMAIN m -> {m[i] : i \in DOMAIN m}] :
        \A i \in DOMAIN m : \E j \in DOMAIN q : q[j] = m[i]}

\* C37 (SpecRecord): when remove_progress_stage removes the current stage,
\* the new progress is the one every record with the same stage-to-date
\* mapping gets, in whatever order its stages were added.
C37_TieBreakIgnoresInsertionOrder ==
    [][(/\ removed' = "True"
        /\ rec.progress \in Keys(rec.progress_stages)
        /\ rec.progress \notin Keys(rec'.progress_stages))
        => \A q \in Reorderings(rec.progress_stages) :
             remove_progress_stage([rec EXCEPT !.progress_stages = q],
                                   rec.progress).progress = rec'.progress]_vars

\* the cases of the list have their required fields and pairwise distinct
\* (case_id, case_type) pairs
DistinctRecords(cases_data) ==
    /\ \A i \in DOMAIN cases_data : has_required(_process_case_data(cases_data[i]))
    /\ \A i, j \in DOMAIN cases_data :
          (/\ cases_data[i].case_id = cases_data[j].case_id
           /\ cases_data[i].case_type = cases_data[j].case_type) => i = j

\* C38 (SpecInsert): after insert_cases in mode 'replace', with nothing
\* failing, on records with pairwise distinct (case_id, case_type) pairs,
\* the table has a row with the values of each of these records.
C38_OneRowPerRecord ==
    (/\ IsCall("insert_cases")
     /\ CleanInsert(call)
     /\ call.arg.mode = "replace"
     /\ DistinctRecords(call.arg.cases_data))
        => \A i \in DOMAIN call.arg.cases_data :
             \E row \in db.table :
                /\ row.case_id = call.arg.cases_data[i].case_id
                /\ SameValues(row, _process_case_data(call.arg.cases_data[i]))

\* C39 (SpecCall): get_case_folder_info changes neither the store nor the
\* disk, and for a known case, when the folder manager does not raise, it
\* reports exists = true exactly when the case folder exists, with every
\* folder manager.
C39_FolderInfoAccurate ==
    [][call'.op = "get_case_folder_info"
        => /\ cases' = cases
           /\ disk' = disk
           /\ (/\ get_case_by_id(cases, call'.arg.case_id) # None
               /\ ~StepIs(call'.trace, "folder_manager.get_case_folder_info", "raise"))
                => (call'.ret.exists
                      <=> FolderPath(get_case_by_id(cases, call'.arg.case_id)) \in disk)]_vars

\* C40 (SpecDatabase): at every step of a DatabaseManager's life, mode
\* 'postgres' implies a connection is held; a manager whose connection
\* failed at construction is in mode 'env_vars'; no call changes the mode
\* or the connection; save_case returns true only in mode 'postgres' with a
\* connection, and in the other modes returns false and leaves the table
\* as it was.
C40_ModeState ==
    [][/\ db.db_mode = "postgres" => db.connection
       /\ (call.op = "__init__" /\ StepIs(call.trace, "psycopg2.connect", "raise"))
            => db.db_mode = "env_vars" /\ ~db.connection
       /\ db'.db_mode = db.db_mode
       /\ db'.connection = db.connection
       /\ (db'.DATABASE_URL /\ db'.POSTGRES_AVAILABLE /\ ~db'.connection)
            => db'.db_mode = "env_vars"
       /\ call'.op = "save_case"
            => /\ call'.msg = <<>>
               /\ call'.ret => db.db_mode = "postgres" /\ db.connection
               /\ db.db_mode \in {"env_vars", "hardcoded"}
                    => ~call'.ret /\ db'.table = db.table]_vars

\* save_case was called on a manager that was downgraded to 'env_vars' when
\* its connection failed: it returned false
C40_Witness ==
    /\ IsCall("save_case")
    /\ db.DATABASE_URL /\ db.POSTGRES_AVAILABLE
    /\ db.db_mode = "env_vars"
    /\ ~db.connection
    /\ call.ret = FALSE

====
